---- MODULE Spec2Model ----
(***************************************************************************)
(* Model of the text-to-SQL pipeline of backend/agents/database_agent.py   *)
(* (DatabaseAgent.query_database, DatabaseAgent.query_database_for_chart), *)
(* of the scoped session of backend/database/postgres_db.py (get_db), of   *)
(* the context resolution of backend/services/context_resolver.py          *)
(* (ContextResolver.resolve_query_context, get_sql_generation_prompt) and  *)
(* of the graph expansion of backend/database/gremlin_db.py.               *)
(*                                                                         *)
(* A Python str is a sequence of one-character strings, so that strip,     *)
(* replace, upper and the "in" test are computed character by character.   *)
(***************************************************************************)
EXTENDS Naturals, Integers, Sequences, FiniteSets, TLC

VARIABLES
    pc,          \* "idle": no request; "called": a handler was called; "executing": the
                 \* handler has handed its statement to db.execute; "returned": the
                 \* response of the handler is with the caller
    handler,     \* which handler produced the response: "query_database" / "query_database_for_chart"
    chart_type,  \* the chart_type argument of the request ("" for query_database)
    completion,  \* what completions.create did for the request (its message content when it answered)
    response,    \* the dict returned by the handler
    calls,       \* the collaborator calls the request made, in order
    db_log,      \* the statements handed to db.execute by the request
    requirement, \* the requirement text of the chart prompt ("" while there is none)
    rpc,         \* where a call of the context resolver stands: "idle", "resolving",
                 \* "entities", "expanded", "returned", "raised", "prompting", "prompted"
    entities,    \* what self.search.resolve_entities returned for the query
    _connected,  \* GremlinConnection._connected
    graph_calls, \* the graph methods called for the query, with their arguments and
                 \* the ids their traversal was built with
    expanded,    \* what _expand_context_via_graph returned
    context,     \* the full_context returned by resolve_query_context
    prompt,      \* the prompt_parts of get_sql_generation_prompt
    normalizing, \* a call of _normalize_value: where it stands, its argument, its result
    tool,        \* a call of the MCP tool query_supply_chain_data: where it stands, the
                 \* result of query_database, the text it returns
    gremlin_conn, \* the global GremlinConnection of gremlin_db.py: g, conn, _connected
    threads,     \* the requests that run at the same time on the global connection:
                 \* for each worker thread its position, what the graph service
                 \* would answer it, the attributes it read and wrote, its result
    ingest,      \* a call of POST /ingest: where it stands, its body, the rows the
                 \* database holds, the HTTP response
    rest         \* the GremlinConnection of gremlin_db_rest_fixed.py, the state of
                 \* the endpoint, the HTTP posts made, the last call and its result

\* the state of the database agent
agent_vars == <<pc, handler, chart_type, completion, response, calls, db_log, requirement>>

\* the state of the context resolver and of the graph connection
resolver_vars == <<rpc, entities, _connected, graph_calls, expanded, context, prompt>>

\* the state of the units that are exercised on their own
unit_vars == <<normalizing, tool, gremlin_conn, threads, ingest, rest>>

vars == <<pc, handler, chart_type, completion, response, calls, db_log, requirement,
          rpc, entities, _connected, graph_calls, expanded, context, prompt,
          normalizing, tool, gremlin_conn, threads, ingest, rest>>

----------------------------------------------------------------------------
(* Bounds *)

\* a raw completion text is the concatenation of at most MaxFrags fragments
MaxFrags == 3

\* the most rows the database returns for a statement that carries no trailing LIMIT n
MaxRows == 12

----------------------------------------------------------------------------
(* Python str primitives *)

LowerCase == <<"a","b","c","d","e","f","g","h","i","j","k","l","m",
               "n","o","p","q","r","s","t","u","v","w","x","y","z">>
UpperCase == <<"A","B","C","D","E","F","G","H","I","J","K","L","M",
               "N","O","P","Q","R","S","T","U","V","W","X","Y","Z">>

Digits == <<"0","1","2","3","4","5","6","7","8","9">>

\* characters str.strip() removes
Whitespace == {" ", "\n", "\t", "\r"}

\* the upper-case letter of each lower-case letter
ToUpper ==
    [c \in {LowerCase[i] : i \in 1..26} |-> UpperCase[CHOOSE i \in 1..26 : LowerCase[i] = c]]

UpperChar(c) == IF c \in DOMAIN ToUpper THEN ToUpper[c] ELSE c

\* str.upper()
upper(s) == [i \in 1..Len(s) |-> UpperChar(s[i])]

RECURSIVE lstrip(_)
lstrip(s) ==
    IF s # <<>> /\ Head(s) \in Whitespace THEN lstrip(Tail(s)) ELSE s

RECURSIVE rstrip(_)
rstrip(s) ==
    IF s # <<>> /\ s[Len(s)] \in Whitespace
    THEN rstrip(SubSeq(s, 1, Len(s) - 1))
    ELSE s

\* str.strip()
strip(s) == rstrip(lstrip(s))

\* p occurs in s at position i
OccursAt(s, p, i) ==
    /\ i >= 1
    /\ i + Len(p) - 1 <= Len(s)
    /\ \A j \in 1..Len(p) : s[i + j - 1] = p[j]

StartsWith(s, p) == OccursAt(s, p, 1)

EndsWith(s, p) == OccursAt(s, p, Len(s) - Len(p) + 1)

\* str.replace(old, new): left to right, non-overlapping occurrences
RECURSIVE replace(_, _, _)
replace(s, old, new) ==
    IF Len(s) < Len(old) THEN s
    ELSE IF StartsWith(s, old)
         THEN new \o replace(SubSeq(s, Len(old) + 1, Len(s)), old, new)
         ELSE <<Head(s)>> \o replace(Tail(s), old, new)

\* positions at which sub occurs in s
Occurrences(s, sub) == {i \in 1..Len(s) : OccursAt(s, sub, i)}

\* sub in s
Contains(s, sub) == \E i \in 1..Len(s) : OccursAt(s, sub, i)

----------------------------------------------------------------------------
(* String literals of the source *)

\* the backquote character (it cannot be written inside a TLA+ string)
BACKTICK == "bt"

FENCE_SQL == <<BACKTICK, BACKTICK, BACKTICK, "s", "q", "l">>
FENCE == <<BACKTICK, BACKTICK, BACKTICK>>
LIMIT == <<"L","I","M","I","T">>
SEMI_SP_LIMIT == <<";"," ","L","I","M","I","T">>
SEMI_LIMIT == <<";","L","I","M","I","T">>
SP_LIMIT == <<" ","L","I","M","I","T">>
SP_LIMIT_10 == <<" ","L","I","M","I","T"," ","1","0">>
SP_LIMIT_20 == <<" ","L","I","M","I","T"," ","2","0">>
SP_LIMIT_50 == <<" ","L","I","M","I","T"," ","5","0">>
SP_LIMIT_100 == <<" ","L","I","M","I","T"," ","1","0","0">>
QUERY_GENERATION_FAILED ==
    <<"Q","u","e","r","y"," ","g","e","n","e","r","a","t","i","o","n"," ","f","a","i","l","e","d">>

\* the keys of chart_requirements
chart_requirements ==
    {"PieChart", "BarChart", "LineChart", "AreaChart", "ScatterChart",
     "GeoChart", "Table", "Histogram", "ColumnChart"}

\* the requirement text of each key
chart_requirements_items ==
    [PieChart |-> "Need 1 category field and 1 numeric field. Use GROUP BY for aggregation.",
     BarChart |-> "Need 1-2 category fields and 1-3 numeric fields. Limit to top 20 rows.",
     LineChart |-> "Need 1 time/sequence field and 1-3 numeric trend fields. Order by time.",
     AreaChart |-> "Need 1 time field and 1-3 numeric fields for cumulative trends.",
     ScatterChart |-> "Need 2 numeric fields (X and Y axis). Include labels if available.",
     GeoChart |-> "Need location field (state/region) and 1 numeric field. Aggregate by location.",
     Table |-> "Return all relevant fields with proper formatting.",
     Histogram |-> "Need 1 numeric field for distribution analysis.",
     ColumnChart |-> "Similar to BarChart but for vertical orientation."]

RETURN_RELEVANT_DATA == "Return relevant data"

\* chart_requirements[chart_type]: a chart type that is no key raises KeyError
chart_requirements_getitem(ct) ==
    IF ct \in chart_requirements
    THEN [raised |-> FALSE, value |-> chart_requirements_items[ct]]
    ELSE [raised |-> TRUE, exc |-> "KeyError"]

\* chart_requirements.get(chart_type, "Return relevant data")
chart_requirements_get(ct) ==
    IF ct \in chart_requirements
    THEN [raised |-> FALSE, value |-> chart_requirements_items[ct]]
    ELSE [raised |-> FALSE, value |-> RETURN_RELEVANT_DATA]

----------------------------------------------------------------------------
(* The guard: the textual transforms applied to the completion text *)

\* content.strip(), then .replace("```sql", "").replace("```", "").strip()
clean_sql(content) ==
    strip(replace(replace(strip(content), FENCE_SQL, <<>>), FENCE, <<>>))

\* _generate_sql_with_context that appends its LIMIT without looking for one
_generate_sql_with_context_always_limit(content) ==
    clean_sql(content) \o SP_LIMIT_50

\* the tail of _generate_sql_with_context: clean up, add LIMIT if not present
_generate_sql_with_context(content) ==
    LET sql_query == clean_sql(content)
    IN  IF ~Contains(upper(sql_query), LIMIT)
        THEN sql_query \o SP_LIMIT_50
        ELSE sql_query

\* _generate_chart_specific_sql that gives PieChart the limit of BarChart
_generate_chart_specific_sql_pie_20(content, ct) ==
    LET sql_query == clean_sql(content)
    IN  IF ~Contains(upper(sql_query), LIMIT)
        THEN IF ct \in {"PieChart", "BarChart", "ColumnChart"} THEN sql_query \o SP_LIMIT_20
             ELSE IF ct = "LineChart" THEN sql_query \o SP_LIMIT_50
             ELSE IF ct = "ScatterChart" THEN sql_query \o SP_LIMIT_100
             ELSE sql_query \o SP_LIMIT_50
        ELSE sql_query

\* _generate_chart_specific_sql that leaves ColumnChart to the default branch
_generate_chart_specific_sql_column_default(content, ct) ==
    LET sql_query == clean_sql(content)
    IN  IF ~Contains(upper(sql_query), LIMIT)
        THEN IF ct = "PieChart" THEN sql_query \o SP_LIMIT_10
             ELSE IF ct = "BarChart" THEN sql_query \o SP_LIMIT_20
             ELSE IF ct = "LineChart" THEN sql_query \o SP_LIMIT_50
             ELSE IF ct = "ScatterChart" THEN sql_query \o SP_LIMIT_100
             ELSE sql_query \o SP_LIMIT_50
        ELSE sql_query

\* the tail of _generate_chart_specific_sql: clean up, ensure LIMIT exists
_generate_chart_specific_sql(content, ct) ==
    LET sql_query == clean_sql(content)
    IN  IF ~Contains(upper(sql_query), LIMIT)
        THEN IF ct = "PieChart" THEN sql_query \o SP_LIMIT_10
             ELSE IF ct \in {"BarChart", "ColumnChart"} THEN sql_query \o SP_LIMIT_20
             ELSE IF ct = "LineChart" THEN sql_query \o SP_LIMIT_50
             ELSE IF ct = "ScatterChart" THEN sql_query \o SP_LIMIT_100
             ELSE sql_query \o SP_LIMIT_50
        ELSE sql_query

\* a semicolon fix that removes every semicolon
fix_semicolon_limit_every_semicolon(sql_query) ==
    replace(sql_query, <<";">>, <<>>)

\* sql_query.replace("; LIMIT", " LIMIT").replace(";LIMIT", " LIMIT")
fix_semicolon_limit(sql_query) ==
    replace(replace(sql_query, SEMI_SP_LIMIT, SP_LIMIT), SEMI_LIMIT, SP_LIMIT)

----------------------------------------------------------------------------
(* Raw database values and _normalize_value *)

PyNone == [type |-> "NoneType"]
PyDate(iso) == [type |-> "date", iso |-> iso]
\* Decimal with two fractional digits, held in hundredths: Decimal("45.00") is PyDecimal(4500)
PyDecimal(hundredths) == [type |-> "Decimal", hundredths |-> hundredths]
\* Decimal("sNaN"): float() of it raises ValueError
PyDecimalSNaN == [type |-> "Decimal_sNaN"]
PyInt(n) == [type |-> "int", int |-> n]
PyFloat(hundredths) == [type |-> "float", hundredths |-> hundredths]
PyStr(chars) == [type |-> "str", chars |-> chars]
PyBool(b) == [type |-> "bool", bool |-> b]
\* any other object (bytes, list, UUID, ...), with its str() form
PyObject(repr) == [type |-> "object", repr |-> repr]

\* Decimal("Infinity"), and every finite Decimal beyond the range of a double
\* such as Decimal("1E+400"): float() of it is inf
PyDecimalInfinity == [type |-> "Decimal_Infinity"]
PyFloatInf == [type |-> "float", inf |-> TRUE]

\* numbers of 2^27 and more are held in two parts, hi * 2^27 + lo
TWO_27 == 134217728
TWO_26 == 67108864
\* an integral Decimal, an int and a float of that size
PyDecimalUnits(hi, lo) == [type |-> "Decimal", hi |-> hi, lo |-> lo]
PyIntUnits(hi, lo) == [type |-> "int", hi |-> hi, lo |-> lo]
PyFloatUnits(hi, lo) == [type |-> "float", hi |-> hi, lo |-> lo]

Raised(exc) == [raised |-> TRUE, exc |-> exc]
Returned(v) == [raised |-> FALSE, value |-> v]

\* float(value) of a finite Decimal: the double nearest to it, ties to even.
\* A Decimal of at most 15 significant digits and the double nearest to it
\* determine each other, so the double is held as the same hundredths; an
\* integer below 2^53 is a double; from 2^53 up to 2^54 the doubles are the
\* even integers.
float(value) ==
    IF "hundredths" \in DOMAIN value THEN PyFloat(value.hundredths)
    ELSE IF value.hi < TWO_26 \/ value.lo % 2 = 0 THEN PyFloatUnits(value.hi, value.lo)
    ELSE IF value.lo % 4 = 1 THEN PyFloatUnits(value.hi, value.lo - 1)
    ELSE IF value.lo + 1 = TWO_27 THEN PyFloatUnits(value.hi + 1, 0)
    ELSE PyFloatUnits(value.hi, value.lo + 1)

\* numeric_value.is_integer()
is_integer(numeric_value) ==
    "hundredths" \in DOMAIN numeric_value => numeric_value.hundredths % 100 = 0

\* int(numeric_value) of a float that is an integer
int(numeric_value) ==
    IF "hundredths" \in DOMAIN numeric_value
    THEN PyInt(numeric_value.hundredths \div 100)
    ELSE PyIntUnits(numeric_value.hi, numeric_value.lo)

\* _normalize_value that returns any other object as it is, without str(value)
_normalize_value_without_other_str(value) ==
    IF value.type = "NoneType" THEN Returned(PyNone)
    ELSE IF value.type = "date" THEN Returned(PyStr(value.iso))
    ELSE IF value.type = "Decimal_sNaN" THEN Raised("ValueError")
    ELSE IF value.type = "Decimal_Infinity" THEN Returned(PyFloatInf)
    ELSE IF value.type = "Decimal"
         THEN IF is_integer(float(value))
              THEN Returned(int(float(value)))
              ELSE Returned(float(value))
    ELSE Returned(value)

_normalize_value(value) ==
    IF value.type = "NoneType" THEN Returned(PyNone)
    ELSE IF value.type = "date" THEN Returned(PyStr(value.iso))
    ELSE IF value.type = "Decimal_sNaN" THEN Raised("ValueError")
    ELSE IF value.type = "Decimal_Infinity" THEN Returned(PyFloatInf)
    ELSE IF value.type = "Decimal"
         THEN IF is_integer(float(value))
              THEN Returned(int(float(value)))
              ELSE Returned(float(value))
    ELSE IF value.type \in {"int", "float", "str", "bool"} THEN Returned(value)
    ELSE Returned(PyStr(value.repr))

----------------------------------------------------------------------------
(* The relational database, as the handlers see it *)

DigitValue(c) == (CHOOSE i \in 1..10 : Digits[i] = c) - 1

IsDigit(c) == \E i \in 1..10 : Digits[i] = c

RECURSIVE ParseNat(_)
ParseNat(s) ==
    IF s = <<>> THEN 0
    ELSE 10 * ParseNat(SubSeq(s, 1, Len(s) - 1)) + DigitValue(s[Len(s)])

RECURSIVE TrailingDigits(_)
TrailingDigits(s) ==
    IF s # <<>> /\ IsDigit(s[Len(s)])
    THEN TrailingDigits(SubSeq(s, 1, Len(s) - 1)) + 1
    ELSE 0

Min(a, b) == IF a <= b THEN a ELSE b

\* a statement without its trailing whitespace and statement terminators
RECURSIVE StripTerminator(_)
StripTerminator(s) ==
    IF s # <<>> /\ s[Len(s)] \in Whitespace \cup {";"}
    THEN StripTerminator(SubSeq(s, 1, Len(s) - 1))
    ELSE s

\* the most rows the database returns for a statement: n when the statement
\* ends with LIMIT n (any case, whitespace between), MaxRows otherwise
DbRowBound(sql) ==
    LET stmt == StripTerminator(sql)
        n == TrailingDigits(stmt)
        before == SubSeq(stmt, 1, Len(stmt) - n)
    IN  IF n > 0 /\ rstrip(before) # before /\ EndsWith(upper(rstrip(before)), LIMIT)
        THEN Min(ParseNat(SubSeq(stmt, Len(stmt) - n + 1, Len(stmt))), MaxRows)
        ELSE MaxRows

\* a result set: the column names (result.keys()) and the rows (fetchall())
Result(columns, row, n) == [columns |-> columns, rows |-> [i \in 1..n |-> row]]

RowCounts(bound) == {0, 1, bound}

\* the result sets the database answers with, for a statement that may return
\* at most bound rows
Results(bound) ==
    { Result(<<"amt", "d", "flag">>,
             <<PyDecimal(4500), PyDate("2025-11-08"), PyNone>>, n) :
        n \in RowCounts(bound) }
    \cup { Result(<<"a", "a">>, <<PyInt(7), PyDecimal(1250)>>, Min(1, bound)),
           Result(<<"x">>, <<PyDecimalSNaN>>, Min(1, bound)),
           Result(<<"b", "f", "s", "o", "ts">>,
                  <<PyBool(TRUE), PyFloat(1250), PyStr("east"), PyObject("[1, 2]"),
                    PyDate("2025-11-08T00:00:00")>>, Min(1, bound)) }

\* what the database does with one statement: execute raises (and the
\* rollback that follows succeeds or raises too), fetchall raises, the rows
\* arrive and the commit succeeds, or the rows arrive and the commit raises
DbOutcomes(sql) ==
    { [kind |-> k, rollback_raises |-> FALSE] : k \in {"execute_raise", "fetch_raise"} }
    \cup
    { [kind |-> "execute_raise", rollback_raises |-> TRUE] }
    \cup
    { [kind |-> "ok", columns |-> r.columns, rows |-> r.rows, commit_raises |-> FALSE,
       rollback_raises |-> FALSE] :
         r \in Results(DbRowBound(sql)) }
    \cup
    { [kind |-> "ok", columns |-> <<"a">>, rows |-> <<>>, commit_raises |-> TRUE,
       rollback_raises |-> FALSE] }

----------------------------------------------------------------------------
(* get_db and the with-block of the two handlers *)

\* for col, value in zip(columns, row): row_dict[col] = self._normalize_value(value)
row_dict(columns, row) ==
    LET n == Min(Len(columns), Len(row))
        last(c) == CHOOSE i \in 1..n : columns[i] = c /\ \A j \in 1..n : columns[j] = c => j <= i
    IN  [c \in {columns[i] : i \in 1..n} |-> _normalize_value(row[last(c)]).value]

\* the cells of a row whose normalization raises
FailingCells(columns, row) ==
    {i \in 1..Min(Len(columns), Len(row)) : _normalize_value(row[i]).raised}

\* the exceptions of the collaborators; in calls, a call that raised is
\* followed by the exception it raised
Exceptions ==
    {"ResolverError", "KeyError", "APIError", "AttributeError", "ProgrammingError",
     "ResourceClosedError", "ValueError", "OperationalError", "InterfaceError"}

\* the body of the with-block: execute, fetchall, keys, convert to a list of dicts
with_body(sql_query, dbo) ==
    IF dbo.kind = "execute_raise"
    THEN [calls |-> <<"execute", "ProgrammingError">>, result |-> Raised("ProgrammingError")]
    ELSE IF dbo.kind = "fetch_raise"
    THEN [calls |-> <<"execute", "fetchall", "ResourceClosedError">>,
          result |-> Raised("ResourceClosedError")]
    ELSE IF \E r \in 1..Len(dbo.rows) : FailingCells(dbo.columns, dbo.rows[r]) # {}
    THEN [calls |-> <<"execute", "fetchall", "keys", "_normalize_value", "ValueError">>,
          result |-> Raised("ValueError")]
    ELSE [calls |-> <<"execute", "fetchall", "keys">>,
          result |->
            Returned([data |-> [r \in 1..Len(dbo.rows) |-> row_dict(dbo.columns, dbo.rows[r])],
                      columns |-> dbo.columns])]

\* get_db without the raise after the rollback: the with-block ends normally
get_db_without_reraise(body, commit_raises, rollback_raises) ==
    IF body.result.raised \/ commit_raises
    THEN [calls |-> <<"SessionLocal">> \o body.calls
                    \o (IF body.result.raised THEN <<>> ELSE <<"commit", "OperationalError">>)
                    \o <<"rollback", "close">>,
          result |-> Returned([data |-> <<>>, columns |-> <<>>])]
    ELSE [calls |-> <<"SessionLocal">> \o body.calls \o <<"commit", "close">>,
          result |-> body.result]

\* get_db with db.close() after the commit instead of in a finally clause
get_db_close_after_commit(body, commit_raises, rollback_raises) ==
    IF body.result.raised
    THEN [calls |-> <<"SessionLocal">> \o body.calls \o <<"rollback">>
                    \o (IF rollback_raises THEN <<"InterfaceError">> ELSE <<>>),
          result |-> IF rollback_raises THEN Raised("InterfaceError") ELSE body.result]
    ELSE IF commit_raises
    THEN [calls |-> <<"SessionLocal">> \o body.calls
                    \o <<"commit", "OperationalError", "rollback">>,
          result |-> Raised("OperationalError")]
    ELSE [calls |-> <<"SessionLocal">> \o body.calls \o <<"commit", "close">>,
          result |-> body.result]

\* get_db with the commit in the finally clause, before the close
get_db_commit_in_finally(body, commit_raises, rollback_raises) ==
    IF body.result.raised
    THEN [calls |-> <<"SessionLocal">> \o body.calls \o <<"rollback">>
                    \o (IF rollback_raises THEN <<"InterfaceError">> ELSE <<>>)
                    \o <<"commit", "close">>,
          result |-> IF rollback_raises THEN Raised("InterfaceError") ELSE body.result]
    ELSE IF commit_raises
    THEN [calls |-> <<"SessionLocal">> \o body.calls
                    \o <<"commit", "OperationalError", "rollback", "close">>,
          result |-> Raised("OperationalError")]
    ELSE [calls |-> <<"SessionLocal">> \o body.calls \o <<"commit", "close">>,
          result |-> body.result]

\* get_db around a with-block: commit when the block completes, rollback and
\* re-raise when it (or the commit) raises, close in every case; an exception
\* of the rollback replaces the one that is being handled
get_db(body, commit_raises, rollback_raises) ==
    IF body.result.raised
    THEN [calls |-> <<"SessionLocal">> \o body.calls \o <<"rollback">>
                    \o (IF rollback_raises THEN <<"InterfaceError">> ELSE <<>>)
                    \o <<"close">>,
          result |-> IF rollback_raises THEN Raised("InterfaceError") ELSE body.result]
    ELSE IF commit_raises
    THEN [calls |-> <<"SessionLocal">> \o body.calls
                    \o <<"commit", "OperationalError", "rollback", "close">>,
          result |-> Raised("OperationalError")]
    ELSE [calls |-> <<"SessionLocal">> \o body.calls \o <<"commit", "close">>,
          result |-> body.result]

\* with get_db() as db: ...
with_get_db(sql_query, dbo) ==
    get_db(with_body(sql_query, dbo), dbo.kind = "ok" /\ dbo.commit_raises,
           dbo.rollback_raises)

----------------------------------------------------------------------------
(* Collaborators *)

\* self.resolver.resolve_query_context(user_query)
ResolverOutcomes == {"ok", "raise"}

SELECT_A_FROM_T == <<"S","E","L","E","C","T"," ","a"," ","F","R","O","M"," ","t">>

\* the pieces a completion text is made of
Fragments ==
    { SELECT_A_FROM_T,
      <<";">>, <<" ">>,
      <<"L","I","M","I","T"," ","1","2">>,
      <<"l","i","m","i","t"," ","5">>,
      <<";"," ","L","I","M","I","T"," ","1","0">>,
      FENCE_SQL, FENCE,
      <<"L","I","M">> \o FENCE \o <<"I","T">> }

RECURSIVE Concats(_)
Concats(n) ==
    IF n = 0 THEN {<<>>}
    ELSE Concats(n - 1) \cup {s \o f : s \in Concats(n - 1), f \in Fragments}

RawTexts == Concats(MaxFrags)

\* self.client.chat.completions.create(...): raises, answers with content None,
\* or answers with a text
CompletionFailures == { [kind |-> "raise", text |-> <<>>], [kind |-> "none", text |-> <<>>] }

CompletionTexts == { [kind |-> "text", text |-> t] : t \in RawTexts }

NotCalled == [kind |-> "not_called", text |-> <<>>]

\* chart_type arguments: the types of the enumeration that have a LIMIT of
\* their own, one that has the default LIMIT, and one value outside it
ChartTypes ==
    {"PieChart", "BarChart", "ColumnChart", "LineChart", "ScatterChart", "Table",
     "SankeyChart"}

----------------------------------------------------------------------------
(* DatabaseAgent.query_database *)

\* query_database with the semicolon fix applied before the LIMIT is appended
guarded_sql_fix_first(content) ==
    LET sql_query == fix_semicolon_limit(clean_sql(content))
    IN  IF ~Contains(upper(sql_query), LIMIT)
        THEN sql_query \o SP_LIMIT_50
        ELSE sql_query

\* query_database without the semicolon fix
guarded_sql_without_fix(content) == _generate_sql_with_context(content)

\* sql_query = self._generate_sql_with_context(...), then the semicolon fix
guarded_sql(content) == fix_semicolon_limit(_generate_sql_with_context(content))

failed_response(error, sql_query) ==
    [agent |-> "database", error |-> error, sql_query |-> sql_query,
     status |-> "failed", data |-> <<>>]

\* the calls query_database makes up to and including the completion
generation_calls ==
    <<"resolve_query_context", "format_context_summary",
      "get_sql_generation_prompt", "completions.create">>

\* query_database from the with-block on, for the guarded statement sql_query
query_database_result(sql_query, dbo) ==
    LET session == with_get_db(sql_query, dbo)
    IN  IF session.result.raised
        THEN [response |-> failed_response(session.result.exc, sql_query),
              calls |-> generation_calls \o session.calls,
              db_log |-> <<sql_query>>]
        ELSE [response |->
                [agent |-> "database",
                 sql_query |-> sql_query,
                 data |-> session.result.value.data,
                 row_count |-> Len(session.result.value.data),
                 columns |-> session.result.value.columns,
                 context_summary |-> "context_summary",
                 status |-> "success"],
              calls |-> generation_calls \o session.calls,
              db_log |-> <<sql_query>>]

\* query_database that goes on to the completion when the resolver raised
query_database_no_sql_generates_anyway(ro, co) ==
    IF ro = "raise"
    THEN [response |-> failed_response("APIError", QUERY_GENERATION_FAILED),
          calls |-> <<"resolve_query_context", "ResolverError",
                      "get_sql_generation_prompt", "completions.create", "APIError">>,
          db_log |-> <<>>]
    ELSE [response |-> failed_response(IF co.kind = "raise" THEN "APIError" ELSE "AttributeError",
                                       QUERY_GENERATION_FAILED),
          calls |-> generation_calls
                    \o <<IF co.kind = "raise" THEN "APIError" ELSE "AttributeError">>,
          db_log |-> <<>>]

\* query_database that calls the completion a second time when it raised
query_database_no_sql_with_retry(ro, co) ==
    IF ro = "raise"
    THEN [response |-> failed_response("ResolverError", QUERY_GENERATION_FAILED),
          calls |-> <<"resolve_query_context", "ResolverError">>,
          db_log |-> <<>>]
    ELSE [response |-> failed_response(IF co.kind = "raise" THEN "APIError" ELSE "AttributeError",
                                       QUERY_GENERATION_FAILED),
          calls |-> generation_calls
                    \o (IF co.kind = "raise"
                        THEN <<"APIError", "completions.create", "APIError">>
                        ELSE <<"AttributeError">>),
          db_log |-> <<>>]

\* query_database when a call before the with-block raises: the resolver, the
\* completion, or .strip() of a None content; sql_query is not in locals()
query_database_no_sql(ro, co) ==
    IF ro = "raise"
    THEN [response |-> failed_response("ResolverError", QUERY_GENERATION_FAILED),
          calls |-> <<"resolve_query_context", "ResolverError">>,
          db_log |-> <<>>]
    ELSE [response |-> failed_response(IF co.kind = "raise" THEN "APIError" ELSE "AttributeError",
                                       QUERY_GENERATION_FAILED),
          calls |-> generation_calls
                    \o <<IF co.kind = "raise" THEN "APIError" ELSE "AttributeError">>,
          db_log |-> <<>>]

Returns(h, ct, co, run) ==
    /\ pc' = "returned"
    /\ handler' = h
    /\ chart_type' = ct
    /\ completion' = co
    /\ response' = run.response
    /\ calls' = run.calls
    /\ db_log' = run.db_log
    /\ UNCHANGED resolver_vars
    /\ UNCHANGED unit_vars

\* the handler is in its with-block and has called db.execute(text(sql_query))
Executes(co, sql_query, calls_so_far) ==
    /\ pc' = "executing"
    /\ completion' = co
    /\ calls' = calls_so_far \o <<"SessionLocal", "execute">>
    /\ db_log' = <<sql_query>>
    /\ UNCHANGED <<handler, chart_type, response>>
    /\ UNCHANGED resolver_vars
    /\ UNCHANGED unit_vars

\* query_database up to db.execute: it returns a failed response when the
\* resolver or the completion raises, and otherwise hands its statement to the
\* database
query_database_generate ==
    /\ pc = "called"
    /\ handler = "query_database"
    /\ UNCHANGED requirement
    /\ \/ Returns("query_database", "", NotCalled,
                  query_database_no_sql("raise", NotCalled))
       \/ \E co \in CompletionFailures :
            Returns("query_database", "", co, query_database_no_sql("ok", co))
       \/ \E co \in CompletionTexts :
            Executes(co, guarded_sql(co.text), generation_calls)

\* query_database from the answer of db.execute to its return
query_database_execute ==
    /\ pc = "executing"
    /\ handler = "query_database"
    /\ UNCHANGED requirement
    /\ \E dbo \in DbOutcomes(db_log[1]) :
         Returns("query_database", "", completion, query_database_result(db_log[1], dbo))

----------------------------------------------------------------------------
(* DatabaseAgent.query_database_for_chart *)

chart_failed_response(error) ==
    [agent |-> "database", error |-> error, status |-> "failed", data |-> <<>>]

\* the calls query_database_for_chart makes up to and including the completion
chart_generation_calls ==
    <<"resolve_query_context", "get_sql_generation_prompt", "completions.create">>

query_database_for_chart_result(ct, sql_query, dbo) ==
    LET session == with_get_db(sql_query, dbo)
    IN  IF session.result.raised
        THEN [response |-> chart_failed_response(session.result.exc),
              calls |-> chart_generation_calls \o session.calls,
              db_log |-> <<sql_query>>]
        ELSE [response |->
                [agent |-> "database",
                 sql_query |-> sql_query,
                 data |-> session.result.value.data,
                 row_count |-> Len(session.result.value.data),
                 columns |-> session.result.value.columns,
                 chart_type |-> ct,
                 status |-> "success"],
              calls |-> chart_generation_calls \o session.calls,
              db_log |-> <<sql_query>>]

query_database_for_chart_no_sql(ro, co) ==
    IF ro = "raise"
    THEN [response |-> chart_failed_response("ResolverError"),
          calls |-> <<"resolve_query_context", "ResolverError">>,
          db_log |-> <<>>]
    ELSE [response |-> chart_failed_response(IF co.kind = "raise" THEN "APIError"
                                             ELSE "AttributeError"),
          calls |-> chart_generation_calls
                    \o <<IF co.kind = "raise" THEN "APIError" ELSE "AttributeError">>,
          db_log |-> <<>>]

\* query_database_for_chart when the lookup of the requirement raises
query_database_for_chart_no_requirement(exc) ==
    [response |-> chart_failed_response(exc),
     calls |-> <<"resolve_query_context", "chart_requirements", exc>>,
     db_log |-> <<>>]

\* query_database_for_chart up to db.execute: the resolver, the requirement of
\* the chart type, the completion, the guard
query_database_for_chart_generate ==
    /\ pc = "called"
    /\ handler = "query_database_for_chart"
    /\ \/ /\ Returns("query_database_for_chart", chart_type, NotCalled,
                     query_database_for_chart_no_sql("raise", NotCalled))
          /\ UNCHANGED requirement
       \/ \E req \in {chart_requirements_get(chart_type)} :
            IF req.raised
            THEN /\ Returns("query_database_for_chart", chart_type, NotCalled,
                            query_database_for_chart_no_requirement(req.exc))
                 /\ UNCHANGED requirement
            ELSE /\ requirement' = req.value
                 /\ \/ \E co \in CompletionFailures :
                         Returns("query_database_for_chart", chart_type, co,
                                 query_database_for_chart_no_sql("ok", co))
                    \/ \E co \in CompletionTexts :
                         Executes(co, _generate_chart_specific_sql(co.text, chart_type),
                                  chart_generation_calls)

\* query_database_for_chart from the answer of db.execute to its return
query_database_for_chart_execute ==
    /\ pc = "executing"
    /\ handler = "query_database_for_chart"
    /\ UNCHANGED requirement
    /\ \E dbo \in DbOutcomes(db_log[1]) :
         Returns("query_database_for_chart", chart_type, completion,
                 query_database_for_chart_result(chart_type, db_log[1], dbo))

----------------------------------------------------------------------------
(* Python dicts, lists and comparisons used by the context resolver *)

\* d.get(k)
get(d, k) == IF k \in DOMAIN d THEN d[k] ELSE PyNone

\* d.get(k, default)
get_default(d, k, default) == IF k \in DOMAIN d THEN d[k] ELSE default

\* bool(value): None, "" and 0 are false
truthy(value) ==
    /\ value.type # "NoneType"
    /\ value.type = "str" => value.chars # <<>>
    /\ value.type = "int" => value.int # 0

\* [e.get(k) for e in es if e.get(k)]
RECURSIVE values_of(_, _)
values_of(es, k) ==
    IF es = <<>> THEN <<>>
    ELSE (IF truthy(get(Head(es), k)) THEN <<get(Head(es), k)>> ELSE <<>>)
         \o values_of(Tail(es), k)

\* list[:n]
first(list, n) == SubSeq(list, 1, Min(n, Len(list)))

\* the characters of the date texts, in code-point order
DateChars == <<"-", ".", "/", "0", "1", "2", "3", "4", "5", "6", "7", "8", "9">>

ord(c) == CHOOSE i \in 1..Len(DateChars) : DateChars[i] = c

\* a < b for two str
RECURSIVE str_less(_, _)
str_less(a, b) ==
    IF b = <<>> THEN FALSE
    ELSE IF a = <<>> THEN TRUE
    ELSE IF Head(a) = Head(b) THEN str_less(Tail(a), Tail(b))
    ELSE ord(Head(a)) < ord(Head(b))

\* a < b for two values of one type
py_less(a, b) ==
    IF a.type = "int" THEN a.int < b.int ELSE str_less(a.chars, b.chars)

\* min(values) and max(values) of a non-empty list of values of one type:
\* the first smallest and the first greatest
RECURSIVE py_min(_)
py_min(values) ==
    IF Len(values) = 1 THEN values[1]
    ELSE LET m == py_min(Tail(values))
         IN  IF py_less(m, Head(values)) THEN m ELSE Head(values)

RECURSIVE py_max(_)
py_max(values) ==
    IF Len(values) = 1 THEN values[1]
    ELSE LET m == py_max(Tail(values))
         IN  IF py_less(Head(values), m) THEN m ELSE Head(values)

\* min() and max() raise TypeError for a list that mixes int and str
same_type(values) == \A i, j \in 1..Len(values) : values[i].type = values[j].type

PyTuple(items) == [type |-> "tuple", items |-> items]

----------------------------------------------------------------------------
(* ContextResolver._convert_excel_date and _extract_date_range *)

\* the date that lies z days after 1970-01-01 (proleptic Gregorian calendar)
civil_from_days(z) ==
    LET s == z + 719468
        era == s \div 146097
        doe == s % 146097
        yoe == (doe - doe \div 1460 + doe \div 36524 - doe \div 146096) \div 365
        doy == doe - (365 * yoe + yoe \div 4 - yoe \div 100)
        mp == (5 * doy + 2) \div 153
        d == doy - (153 * mp + 2) \div 5 + 1
        m == IF mp < 10 THEN mp + 3 ELSE mp - 9
        y == yoe + era * 400 + (IF m <= 2 THEN 1 ELSE 0)
    IN  [year |-> y, month |-> m, day |-> d]

\* n in w decimal digits, zero padded
RECURSIVE zero_padded(_, _)
zero_padded(n, w) ==
    IF w = 0 THEN <<>> ELSE zero_padded(n \div 10, w - 1) \o <<Digits[(n % 10) + 1]>>

\* (datetime(1899, 12, 30) + timedelta(days=val)).strftime('%Y-%m-%d')
excel_date(days) ==
    LET date == civil_from_days(days - 25569)
    IN  zero_padded(date.year, 4) \o <<"-">> \o zero_padded(date.month, 2)
        \o <<"-">> \o zero_padded(date.day, 2)

\* str.isdigit()
isdigit(chars) == chars # <<>> /\ \A i \in 1..Len(chars) : IsDigit(chars[i])

_convert_excel_date(val) ==
    IF val.type = "int" THEN PyStr(excel_date(val.int))
    ELSE IF val.type = "float" THEN PyStr(excel_date(val.hundredths \div 100))
    ELSE IF val.type = "str" /\ isdigit(val.chars) THEN PyStr(excel_date(ParseNat(val.chars)))
    ELSE val

\* [self._convert_excel_date(d.get("date")) for d in dates if d.get("date")]
RECURSIVE converted_dates(_)
converted_dates(dates) ==
    IF dates = <<>> THEN <<>>
    ELSE (IF truthy(get(Head(dates), "date"))
          THEN <<_convert_excel_date(get(Head(dates), "date"))>>
          ELSE <<>>)
         \o converted_dates(Tail(dates))

\* _extract_date_range that takes the dates as they are, without the conversion
_extract_date_range_without_conversion(dates) ==
    IF dates = <<>> THEN PyNone
    ELSE LET date_values == values_of(dates, "date")
         IN  IF date_values = <<>> THEN PyNone
             ELSE IF same_type(date_values)
                  THEN PyTuple(<<py_min(date_values), py_max(date_values)>>)
                  ELSE PyTuple(<<date_values[1], date_values[1]>>)

_extract_date_range(dates) ==
    IF dates = <<>> THEN PyNone
    ELSE LET date_values == converted_dates(dates)
         IN  IF date_values = <<>> THEN PyNone
             ELSE PyTuple(<<py_min(date_values), py_max(date_values)>>)

----------------------------------------------------------------------------
(* GremlinConnection (database/gremlin_db.py) *)

\* what a traversal does when it is run: .toList() raises or returns
TraversalOutcomes == {"raise", "results"}

\* str(n)
RECURSIVE decimal(_)
decimal(n) == IF n < 10 THEN <<Digits[n + 1]>> ELSE decimal(n \div 10) \o <<Digits[(n % 10) + 1]>>

\* the text of an identifier or a name: a prefix and a number
Id(prefix, i) == PyStr(<<prefix>> \o decimal(i))

\* rows of the three traversals
ProductResults ==
    << [product_id |-> Id("P", 7), product_name |-> Id("p", 7), category |-> Id("c", 1)],
       [product_id |-> Id("P", 8), product_name |-> Id("p", 8), category |-> Id("c", 1)] >>

LocationResults ==
    << [store_id |-> Id("S", 7), store_name |-> Id("s", 7), market |-> Id("m", 1)],
       [store_id |-> Id("S", 8), store_name |-> Id("s", 8), market |-> Id("m", 1)],
       [store_id |-> Id("S", 9), store_name |-> Id("s", 9), market |-> Id("m", 1)] >>

EventResults ==
    << [event_name |-> Id("e", 7), date |-> PyStr(<<"2","0","2","5","-","1","1","-","0","8">>),
        event_type |-> Id("t", 1)] >>

\* expand_product_context without its try/except: the exception of the
\* traversal reaches the caller
expand_product_context_without_except(connected, product_ids, outcome) ==
    IF ~connected THEN [raised |-> FALSE, caught |-> FALSE, result |-> <<>>, traversal |-> <<>>]
    ELSE [raised |-> outcome = "raise", caught |-> FALSE,
          result |-> IF outcome = "raise" THEN <<>> ELSE ProductResults,
          traversal |-> <<[label |-> "Product", within |-> product_ids]>>]

\* a method answers with [] when the connection is down or the traversal
\* raises; it never raises itself
expand_product_context(connected, product_ids, outcome) ==
    IF ~connected THEN [raised |-> FALSE, caught |-> FALSE, result |-> <<>>, traversal |-> <<>>]
    ELSE [raised |-> FALSE, caught |-> outcome = "raise",
          result |-> IF outcome = "raise" THEN <<>> ELSE ProductResults,
          traversal |-> <<[label |-> "Product", within |-> product_ids]>>]

\* expand_location_context of database/gremlin_db_rest_fixed.py
expand_location_context_rest_fixed(connected, location_ids, outcome) ==
    IF ~connected \/ location_ids = <<>> THEN [raised |-> FALSE, caught |-> FALSE, result |-> <<>>, traversal |-> <<>>]
    ELSE [raised |-> FALSE, caught |-> outcome = "raise",
          result |-> IF outcome = "raise" THEN <<>> ELSE LocationResults,
          traversal |-> <<[label |-> "Store", within |-> first(location_ids, 3)]>>]

expand_location_context(connected, location_ids, outcome) ==
    IF ~connected THEN [raised |-> FALSE, caught |-> FALSE, result |-> <<>>, traversal |-> <<>>]
    ELSE [raised |-> FALSE, caught |-> outcome = "raise",
          result |-> IF outcome = "raise" THEN <<>> ELSE LocationResults,
          traversal |-> <<[label |-> "Store", within |-> location_ids]>>]

\* min(dates) raises TypeError inside the try when the dates mix int and str
find_related_events(connected, location_ids, dates, outcome) ==
    IF ~connected \/ dates = <<>> THEN [raised |-> FALSE, caught |-> FALSE, result |-> <<>>, traversal |-> <<>>]
    ELSE IF ~same_type(dates)
    THEN [raised |-> FALSE, caught |-> TRUE, result |-> <<>>, traversal |-> <<>>]
    ELSE [raised |-> FALSE, caught |-> outcome = "raise",
          result |-> IF outcome = "raise" THEN <<>> ELSE EventResults,
          traversal |-> <<[label |-> "Event", gte |-> py_min(dates), lte |-> py_max(dates),
                           within |-> location_ids]>>]

\* a call of a graph method: its arguments, the traversal it built and
\* whether it caught an exception
GraphCall(method, ids, dates, run) ==
    [method |-> method, ids |-> ids, dates |-> dates, traversal |-> run.traversal,
     caught |-> run.caught]

----------------------------------------------------------------------------
(* ContextResolver._expand_context_via_graph *)

NoExpansion == [expanded_products |-> <<>>, expanded_locations |-> <<>>, related_events |-> <<>>]

\* _expand_context_via_graph that looks for events whenever a location has an id
_expand_context_via_graph_events_without_dates(ents, connected, po, lo, eo) ==
    IF ~connected THEN [raised |-> FALSE, expanded |-> NoExpansion, graph_calls |-> <<>>]
    ELSE LET product_ids == values_of(ents.products, "id")
             location_ids == values_of(ents.locations, "id")
             date_list == values_of(ents.dates, "date")
             products == expand_product_context(connected, product_ids, po)
             locations == expand_location_context(connected, location_ids, lo)
             events == find_related_events(connected, location_ids, date_list, eo)
         IN  [raised |-> product_ids # <<>> /\ products.raised,
              expanded |->
                [expanded_products |-> IF product_ids # <<>> THEN products.result ELSE <<>>,
                 expanded_locations |-> IF location_ids # <<>> THEN locations.result ELSE <<>>,
                 related_events |-> IF location_ids # <<>> THEN events.result ELSE <<>>],
              graph_calls |->
                (IF product_ids # <<>>
                 THEN <<GraphCall("expand_product_context", product_ids, <<>>, products)>>
                 ELSE <<>>)
                \o (IF location_ids # <<>>
                    THEN <<GraphCall("expand_location_context", location_ids, <<>>, locations)>>
                    ELSE <<>>)
                \o (IF location_ids # <<>>
                    THEN <<GraphCall("find_related_events", location_ids, date_list, events)>>
                    ELSE <<>>)]

\* connected is the answer of self.graph.ensure_connected(); po, lo and eo are
\* what the three traversals do if they are run
_expand_context_via_graph(ents, connected, po, lo, eo) ==
    IF ~connected THEN [raised |-> FALSE, expanded |-> NoExpansion, graph_calls |-> <<>>]
    ELSE LET product_ids == values_of(ents.products, "id")
             location_ids == values_of(ents.locations, "id")
             date_list == values_of(ents.dates, "date")
             products == expand_product_context(connected, product_ids, po)
             locations == expand_location_context(connected, location_ids, lo)
             events == find_related_events(connected, location_ids, date_list, eo)
         IN  [raised |-> product_ids # <<>> /\ products.raised,
              expanded |->
                [expanded_products |-> IF product_ids # <<>> THEN products.result ELSE <<>>,
                 expanded_locations |-> IF location_ids # <<>> THEN locations.result ELSE <<>>,
                 related_events |->
                    IF date_list # <<>> /\ location_ids # <<>> THEN events.result ELSE <<>>],
              graph_calls |->
                (IF product_ids # <<>>
                 THEN <<GraphCall("expand_product_context", product_ids, <<>>, products)>>
                 ELSE <<>>)
                \o (IF location_ids # <<>>
                    THEN <<GraphCall("expand_location_context", location_ids, <<>>, locations)>>
                    ELSE <<>>)
                \o (IF date_list # <<>> /\ location_ids # <<>>
                    THEN <<GraphCall("find_related_events", location_ids, date_list, events)>>
                    ELSE <<>>)]

----------------------------------------------------------------------------
(* ContextResolver.resolve_query_context *)

\* most products, dates and events the entity resolver returns for a query
MaxEntities == 2

\* most locations the entity resolver returns for a query
MaxLocations == 4

D_2025_11_01 == <<"2","0","2","5","-","1","1","-","0","1">>
D_2025_11_08 == <<"2","0","2","5","-","1","1","-","0","8">>

\* the i-th entity of a kind: with its id, or without a usable id (no "id"
\* key at an odd position, the id "" at an even one)
Entity(prefix, name, i, with_id) ==
    IF with_id THEN [id |-> Id(prefix, i), name |-> Id(name, i)]
    ELSE IF i % 2 = 1 THEN [name |-> Id(name, i)]
    ELSE [id |-> PyStr(<<>>), name |-> Id(name, i)]

\* lists of at most n entities: all with an id, the first without, or none with
EntityLists(prefix, name, n) ==
    UNION { { [i \in 1..k |-> Entity(prefix, name, i, i \notin without)] :
                without \in {{}, {1}, 1..k} } : k \in 0..n }

\* calendar entries: an ISO date, Excel serial dates as int and as text of
\* digits, and an entry without a date
DateEntities ==
    { [date |-> PyStr(D_2025_11_01)],
      [date |-> PyInt(45969)],
      [date |-> PyStr(<<"4","5","9","5","5">>)],
      [season |-> Id("w", 1)] }

RECURSIVE ListsUpTo(_, _)
ListsUpTo(S, n) ==
    IF n = 0 THEN {<<>>}
    ELSE ListsUpTo(S, n - 1) \cup {Append(l, x) : l \in ListsUpTo(S, n - 1), x \in S}

\* what self.search.resolve_entities(user_query) returns
EntityResults ==
    { [products |-> ps, locations |-> ls, dates |-> ds, events |-> es] :
        ps \in EntityLists("P", "product", MaxEntities),
        ls \in EntityLists("S", "location", MaxLocations),
        ds \in ListsUpTo(DateEntities, MaxEntities),
        es \in { [i \in 1..k |-> [event |-> Id("e", i)]] : k \in {0, MaxEntities} } }

NoEntities == [products |-> <<>>, locations |-> <<>>, dates |-> <<>>, events |-> <<>>]
NoContext == [status |-> "none"]

\* Step 4 of resolve_query_context: combine everything
full_context(ents, expanded_context, metadata) ==
    [status |-> "returned",
     products |-> [resolved |-> ents.products,
                   expanded |-> expanded_context.expanded_products],
     locations |-> [resolved |-> ents.locations,
                    expanded |-> expanded_context.expanded_locations],
     dates |-> [resolved |-> ents.dates,
                date_range |-> _extract_date_range(ents.dates)],
     events |-> [resolved |-> ents.events,
                 related_events |-> expanded_context.related_events],
     metadata |-> metadata]

raised_context(exc) == [status |-> "raised", exc |-> exc]

\* a caller calls resolve_query_context(user_query)
CallResolveQueryContext ==
    /\ rpc = "idle"
    /\ rpc' = "resolving"
    /\ UNCHANGED <<entities, _connected, graph_calls, expanded, context, prompt>>
    /\ UNCHANGED agent_vars
    /\ UNCHANGED unit_vars

\* Step 1: entities = self.search.resolve_entities(user_query); the entity
\* resolver answers or raises
resolve_query_context_entities ==
    /\ rpc = "resolving"
    /\ \/ \E ents \in EntityResults :
            /\ entities' = ents
            /\ rpc' = "entities"
            /\ UNCHANGED context
       \/ /\ rpc' = "raised"
          /\ context' = raised_context("ResolverError")
          /\ UNCHANGED entities
    /\ UNCHANGED <<_connected, graph_calls, expanded, prompt>>
    /\ UNCHANGED agent_vars
    /\ UNCHANGED unit_vars

\* Step 2: expanded_context = self._expand_context_via_graph(entities);
\* ensure_connected connects when the connection is not up, which may fail
resolve_query_context_expand ==
    /\ rpc = "entities"
    /\ \E connect_ok \in BOOLEAN, po \in TraversalOutcomes, lo \in TraversalOutcomes,
          eo \in TraversalOutcomes :
         LET connected == _connected \/ connect_ok
             run == _expand_context_via_graph(entities, connected, po, lo, eo)
         IN  /\ _connected' = connected
             /\ graph_calls' = run.graph_calls
             /\ expanded' = run.expanded
             /\ IF run.raised
                THEN rpc' = "raised" /\ context' = raised_context("GremlinServerError")
                ELSE rpc' = "expanded" /\ UNCHANGED context
    /\ UNCHANGED <<entities, prompt>>
    /\ UNCHANGED agent_vars
    /\ UNCHANGED unit_vars

\* Steps 3 and 4: metadata = self.search.get_schema_context(user_query), which
\* answers or raises, then the combined context is returned
resolve_query_context_combine ==
    /\ rpc = "expanded"
    /\ \/ /\ rpc' = "returned"
          /\ context' = full_context(entities, expanded, "metadata")
       \/ /\ rpc' = "raised"
          /\ context' = raised_context("ResolverError")
    /\ UNCHANGED <<entities, _connected, graph_calls, expanded, prompt>>
    /\ UNCHANGED agent_vars
    /\ UNCHANGED unit_vars

\* the caller has the context (or the exception); the locals of the call are
\* gone, the graph connection stays as it is
ResolveQueryContextDone ==
    /\ rpc \in {"returned", "raised"}
    /\ rpc' = "idle"
    /\ entities' = NoEntities
    /\ graph_calls' = <<>>
    /\ expanded' = NoExpansion
    /\ context' = NoContext
    /\ UNCHANGED <<_connected, prompt>>
    /\ UNCHANGED agent_vars
    /\ UNCHANGED unit_vars

ResolverNext ==
    \/ CallResolveQueryContext
    \/ resolve_query_context_entities
    \/ resolve_query_context_expand
    \/ resolve_query_context_combine
    \/ ResolveQueryContextDone

----------------------------------------------------------------------------
(* ContextResolver.get_sql_generation_prompt *)

\* one element of prompt_parts: the section it belongs to, its fixed text and
\* the values interpolated into it
Part(section, label, shown) == [section |-> section, label |-> label, shown |-> shown]

UNKNOWN == PyStr(<<"U","n","k","n","o","w","n">>)
UNKNOWN_EVENT == PyStr(<<"U","n","k","n","o","w","n"," ","E","v","e","n","t">>)

\* the static date context at the top
date_context_parts ==
    << Part("date_anchoring", "=== CURRENT DATE CONTEXT ===", <<>>),
       Part("date_anchoring", "Current Weekend (Week End Date): ", <<PyStr(D_2025_11_08)>>),
       Part("date_anchoring", "- 'This week' or 'current week' = end_date '2025-11-08'", <<>>),
       Part("date_anchoring", "- 'Next week' or 'NW' = end_date '2025-11-15'", <<>>),
       Part("date_anchoring", "- 'Last week' or 'LW' = end_date '2025-11-01'", <<>>),
       Part("date_anchoring", "- 'Next month' or 'NM' = December 2025", <<>>),
       Part("date_anchoring", "- 'Last month' or 'LM' = October 2025", <<>>),
       Part("date_anchoring", "- 'Last year' or 'LY' = 2024", <<>>),
       Part("date_anchoring", "- 'Next 2 weeks' = end_dates '2025-11-15' and '2025-11-22'", <<>>),
       Part("date_anchoring", "- 'Last 6 weeks' = 6 weeks ending before '2025-11-08'", <<>>),
       Part("date_anchoring", "- CRITICAL: calendar.month column is STRING", <<>>) >>

user_query_part(user_query) == <<Part("user_query", "User Query: ", <<user_query>>)>>

\* name and category of the first 5 resolved products
product_info(resolved) ==
    [i \in 1..Len(first(resolved, 5)) |->
        [name |-> get_default(resolved[i], "product",
                      get_default(resolved[i], "product_name",
                          get_default(resolved[i], "id", UNKNOWN))),
         cat |-> get_default(resolved[i], "category", UNKNOWN)]]

\* product_ids that interpolates the ids of all resolved products
product_ids_without_cap(resolved) ==
    [i \in 1..Len(resolved) |->
        get_default(resolved[i], "product_id", get(resolved[i], "id"))]

\* [p.get("product_id", p.get("id")) for p in products["resolved"][:10]]
product_ids(resolved) ==
    [i \in 1..Len(first(resolved, 10)) |->
        get_default(resolved[i], "product_id", get(resolved[i], "id"))]

\* [p.get("product_id") for p in products["expanded"][:20]]
expanded_product_ids(exp) ==
    [i \in 1..Len(first(exp, 20)) |-> get(exp[i], "product_id")]

\* the names of the first 5 resolved locations
location_names(resolved) ==
    [i \in 1..Len(first(resolved, 5)) |->
        get_default(resolved[i], "location",
            get_default(resolved[i], "store_name",
                get_default(resolved[i], "id", UNKNOWN)))]

\* [l.get("id") for l in locations["resolved"][:20]]
location_ids(resolved) ==
    [i \in 1..Len(first(resolved, 20)) |-> get(resolved[i], "id")]

\* [l.get("store_id") for l in locations["expanded"][:50]]
expanded_store_ids(exp) ==
    [i \in 1..Len(first(exp, 50)) |-> get(exp[i], "store_id")]

\* [d.get("date") for d in dates["resolved"][:5]]
date_samples(resolved) ==
    [i \in 1..Len(first(resolved, 5)) |-> get(resolved[i], "date")]

\* the names of the first 5 resolved events
event_names(resolved) ==
    [i \in 1..Len(first(resolved, 5)) |->
        get_default(resolved[i], "event",
            get_default(resolved[i], "event_name", UNKNOWN_EVENT))]

products_parts(products) ==
    (IF products.resolved # <<>>
     THEN << Part("products", "Relevant Products: ", product_info(products.resolved)),
             Part("products", "Product IDs (for specific item queries): ",
                  product_ids(products.resolved)),
             Part("products", "NOTE: If user asks about a Category listed above", <<>>) >>
     ELSE <<>>)
    \o
    (IF products.expanded # <<>>
     THEN << Part("products", "Related Products (from same category): ",
                  <<PyInt(Len(expanded_product_ids(products.expanded)))>>),
             Part("products", "Expanded Product IDs: ",
                  expanded_product_ids(products.expanded)) >>
     ELSE <<>>)

locations_parts(locations) ==
    (IF locations.resolved # <<>>
     THEN << Part("locations", "Relevant Locations: ", location_names(locations.resolved)),
             Part("locations", "Store IDs to filter: ", location_ids(locations.resolved)) >>
     ELSE <<>>)
    \o
    (IF locations.expanded # <<>>
     THEN << Part("locations", "Related Locations (same region/market): ",
                  <<PyInt(Len(expanded_store_ids(locations.expanded)))>>),
             Part("locations", "Expanded Store IDs: ",
                  expanded_store_ids(locations.expanded)) >>
     ELSE <<>>)

dates_parts(dates) ==
    IF dates.date_range.type = "tuple"
    THEN <<Part("dates", "Date Range: ", dates.date_range.items)>>
    ELSE IF dates.resolved # <<>>
    THEN <<Part("dates", "Relevant Dates: ", date_samples(dates.resolved))>>
    ELSE <<>>

events_parts(events) ==
    IF events.resolved # <<>>
    THEN <<Part("events", "Relevant Events: ", event_names(events.resolved))>>
    ELSE <<>>

\* the database schema, the WDD formulas and the SQL generation instructions
schema_parts ==
    << Part("schema", "Available Database Tables:", <<>>),
       Part("schema", "=== QUERY TYPE DETECTION === ... === TABLE SCHEMAS === ...", <<>>) >>

formulas_parts == <<Part("formulas", "=== WDD FORMULAS (For metrics table ONLY) ===", <<>>)>>

rules_parts == <<Part("rules", "IMPORTANT SQL GENERATION RULES:", <<>>)>>

\* get_sql_generation_prompt that describes the schema only when the context
\* names a product or a location
get_sql_generation_prompt_schema_with_context(user_query, ctx) ==
    date_context_parts
    \o user_query_part(user_query)
    \o products_parts(ctx.products)
    \o locations_parts(ctx.locations)
    \o dates_parts(ctx.dates)
    \o events_parts(ctx.events)
    \o (IF ctx.products.resolved # <<>> \/ ctx.locations.resolved # <<>>
        THEN schema_parts ELSE <<>>)
    \o formulas_parts
    \o rules_parts

\* prompt_parts, in the order of the appends
get_sql_generation_prompt(user_query, ctx) ==
    date_context_parts
    \o user_query_part(user_query)
    \o products_parts(ctx.products)
    \o locations_parts(ctx.locations)
    \o dates_parts(ctx.dates)
    \o events_parts(ctx.events)
    \o schema_parts
    \o formulas_parts
    \o rules_parts

----------------------------------------------------------------------------
(* The contexts get_sql_generation_prompt is called with *)

\* how many entries past a cap of the prompt a list of a context has at most
MaxBeyondCap == 1

\* lengths of a list shown under the caps: empty, one entry, as long as a cap,
\* and MaxBeyondCap entries longer than a cap
Lengths(caps) == {0, 1} \cup caps \cup { c + MaxBeyondCap : c \in caps }

\* the i-th resolved product: the fields the entity resolver filled vary
ResolvedProduct(i) ==
    IF i % 4 = 1 THEN [product |-> Id("product", i), category |-> Id("c", i % 3),
                       product_id |-> Id("PROD_", i), id |-> Id("P", i)]
    ELSE IF i % 4 = 2 THEN [product_name |-> Id("product", i), id |-> Id("P", i)]
    ELSE IF i % 4 = 3 THEN [id |-> Id("P", i), category |-> Id("c", i % 3)]
    ELSE [score |-> PyInt(i)]

ExpandedProduct(i) ==
    IF i % 7 = 0 THEN [product_name |-> Id("product", 100 + i)]
    ELSE [product_id |-> Id("P", 100 + i), product_name |-> Id("product", 100 + i),
          category |-> Id("c", 1)]

ResolvedLocation(i) ==
    IF i % 3 = 1 THEN [location |-> Id("store", i), id |-> Id("S", i)]
    ELSE IF i % 3 = 2 THEN [store_name |-> Id("store", i), id |-> Id("S", i)]
    ELSE [id |-> Id("S", i)]

ExpandedLocation(i) ==
    [store_id |-> Id("S", 100 + i), store_name |-> Id("store", 100 + i), market |-> Id("m", 1)]

ResolvedEvent(i) ==
    IF i % 3 = 1 THEN [event |-> Id("event", i)]
    ELSE IF i % 3 = 2 THEN [event_name |-> Id("event", i)]
    ELSE [score |-> PyInt(i)]

\* the dates of a context: none, a date with its range, and entries without a
\* date value (no range)
PromptDates ==
    { [resolved |-> <<>>, date_range |-> PyNone],
      [resolved |-> <<[date |-> PyStr(D_2025_11_01)], [date |-> PyStr(D_2025_11_08)]>>,
       date_range |-> PyTuple(<<PyStr(D_2025_11_01), PyStr(D_2025_11_08)>>)],
      [resolved |-> [i \in 1..(5 + MaxBeyondCap) |-> [season |-> Id("w", i)]],
       date_range |-> PyNone] }

PromptContexts ==
    { [status |-> "returned",
       products |-> [resolved |-> [i \in 1..np |-> ResolvedProduct(i)],
                     expanded |-> [i \in 1..xp |-> ExpandedProduct(i)]],
       locations |-> [resolved |-> [i \in 1..nl |-> ResolvedLocation(i)],
                      expanded |-> [i \in 1..xl |-> ExpandedLocation(i)]],
       dates |-> ds,
       events |-> [resolved |-> [i \in 1..ne |-> ResolvedEvent(i)], related_events |-> <<>>],
       metadata |-> "metadata"] :
        np \in Lengths({5, 10}), xp \in Lengths({20}),
        nl \in Lengths({5, 20}), xl \in Lengths({50}),
        ne \in Lengths({5}), ds \in PromptDates }

USER_QUERY == PyStr(<<"t","o","p"," ","s","e","l","l","i","n","g">>)

\* a caller calls get_sql_generation_prompt(user_query, context)
CallGetSqlGenerationPrompt ==
    /\ rpc = "idle"
    /\ rpc' = "prompting"
    /\ context' \in PromptContexts
    /\ UNCHANGED <<entities, _connected, graph_calls, expanded, prompt>>
    /\ UNCHANGED agent_vars
    /\ UNCHANGED unit_vars

\* get_sql_generation_prompt builds prompt_parts and returns them joined
get_sql_generation_prompt_return ==
    /\ rpc = "prompting"
    /\ rpc' = "prompted"
    /\ prompt' = get_sql_generation_prompt(USER_QUERY, context)
    /\ UNCHANGED <<entities, _connected, graph_calls, expanded, context>>
    /\ UNCHANGED agent_vars
    /\ UNCHANGED unit_vars

\* the caller has the prompt
GetSqlGenerationPromptDone ==
    /\ rpc = "prompted"
    /\ rpc' = "idle"
    /\ context' = NoContext
    /\ prompt' = <<>>
    /\ UNCHANGED <<entities, _connected, graph_calls, expanded>>
    /\ UNCHANGED agent_vars
    /\ UNCHANGED unit_vars

PromptNext ==
    \/ CallGetSqlGenerationPrompt
    \/ get_sql_generation_prompt_return
    \/ GetSqlGenerationPromptDone

----------------------------------------------------------------------------
(* _normalize_value on its own *)

\* the largest Decimal of two fractional digits that is normalized, in hundredths
MaxCents == 120

\* how far past 2^53 the integral Decimals that are normalized go
MaxPast == 5

NotNormalizing == [pc |-> "idle"]

\* the values a database driver hands over
RawInputs ==
    {PyNone, PyDecimalSNaN, PyDecimalInfinity, PyBool(TRUE), PyBool(FALSE),
     PyDate("2025-11-08"), PyDate("2025-11-08T00:00:00"), PyDate("13:45:00"),
     PyDecimal(4500), PyFloat(1250), PyFloat(1200), PyStr("east"), PyStr(""),
     PyObject("[1, 2]"), PyObject("b'ab'"),
     PyDecimalUnits(TWO_26 - 1, TWO_27 - 1), PyDecimalUnits(TWO_27 - 1, TWO_27 - 1)}
    \cup { PyDecimal(h) : h \in 0..MaxCents }
    \cup { PyInt(n) : n \in 0..2 }
    \cup { PyDecimalUnits(TWO_26, lo) : lo \in 0..MaxPast }

\* a caller calls self._normalize_value(value)
CallNormalizeValue ==
    /\ normalizing.pc = "idle"
    /\ \E value \in RawInputs : normalizing' = [pc |-> "called", value |-> value]
    /\ UNCHANGED <<tool, gremlin_conn, threads, ingest, rest>>
    /\ UNCHANGED agent_vars
    /\ UNCHANGED resolver_vars

\* _normalize_value returns or raises
_normalize_value_return ==
    /\ normalizing.pc = "called"
    /\ normalizing' = [pc |-> "returned", value |-> normalizing.value,
                       result |-> _normalize_value(normalizing.value)]
    /\ UNCHANGED <<tool, gremlin_conn, threads, ingest, rest>>
    /\ UNCHANGED agent_vars
    /\ UNCHANGED resolver_vars

\* the caller has the cell
NormalizeValueDone ==
    /\ normalizing.pc = "returned"
    /\ normalizing' = NotNormalizing
    /\ UNCHANGED <<tool, gremlin_conn, threads, ingest, rest>>
    /\ UNCHANGED agent_vars
    /\ UNCHANGED resolver_vars

NormalizeNext ==
    \/ CallNormalizeValue
    \/ _normalize_value_return
    \/ NormalizeValueDone

----------------------------------------------------------------------------
(* mcp_server.query_supply_chain_data *)

NoToolCall == [pc |-> "idle"]

NO_ANSWER_GENERATED == [kind |-> "literal", text |-> "No answer generated."]

\* str(value)
str(value) == [kind |-> "str", of |-> value]

\* the completion texts behind the results the tool sees: one or two fragments
ToolTexts == { f \o g : f \in Fragments \cup {<<>>}, g \in Fragments }


\* what db_agent.query_database(query) returns: for every outcome of the
\* resolver, of the completion and of the database
QueryDatabaseResults ==
    {query_database_no_sql("raise", NotCalled).response}
    \cup { query_database_no_sql("ok", co).response : co \in CompletionFailures }
    \cup UNION { { query_database_result(guarded_sql(text), dbo).response :
                      dbo \in DbOutcomes(guarded_sql(text)) } :
                  text \in ToolTexts }

\* str(result.get("answer", "No answer generated."))
answer_text(result) ==
    IF "answer" \in DOMAIN result THEN str(result.answer) ELSE NO_ANSWER_GENERATED

\* an MCP client calls the tool
CallQuerySupplyChainData ==
    /\ tool.pc = "idle"
    /\ tool' = [pc |-> "called"]
    /\ UNCHANGED <<normalizing, gremlin_conn, threads, ingest, rest>>
    /\ UNCHANGED agent_vars
    /\ UNCHANGED resolver_vars

\* result = db_agent.query_database(query), which returns a response for every
\* outcome, and the tool returns the text for it
query_supply_chain_data_return ==
    /\ tool.pc = "called"
    /\ \E result \in QueryDatabaseResults :
         tool' = [pc |-> "returned", result |-> result, text |-> answer_text(result)]
    /\ UNCHANGED <<normalizing, gremlin_conn, threads, ingest, rest>>
    /\ UNCHANGED agent_vars
    /\ UNCHANGED resolver_vars

\* the client has the text
QuerySupplyChainDataDone ==
    /\ tool.pc = "returned"
    /\ tool' = NoToolCall
    /\ UNCHANGED <<normalizing, gremlin_conn, threads, ingest, rest>>
    /\ UNCHANGED agent_vars
    /\ UNCHANGED resolver_vars

ToolNext ==
    \/ CallQuerySupplyChainData
    \/ query_supply_chain_data_return
    \/ QuerySupplyChainDataDone

----------------------------------------------------------------------------
(* POST /api/v1/reports/ingest *)

\* the most records in one body, and the most rows the tables take
MaxRecords == 2
MaxCommitted == 3

ValidDataTypes == {"sales", "inventory", "weather", "events"}

\* the data_type values of the requests
DataTypes == ValidDataTypes \cup {"orders", "Sales"}

\* a record of the body: one the model class accepts, or one with a key the
\* model class has no column for
RECURSIVE RecordLists(_)
RecordLists(n) ==
    IF n = 0 THEN {<<>>}
    ELSE RecordLists(n - 1) \cup {rs \o <<r>> : rs \in RecordLists(n - 1), r \in {"ok", "bad"}}

\* HTTPException(status_code, detail)
HTTPException(status_code, detail) ==
    [type |-> "HTTPException", status_code |-> status_code, detail |-> detail]

\* f"Invalid data_type: {request.data_type}"
invalid_data_type(data_type) == <<"Invalid data_type", ": ", data_type>>

\* str(e): the message of an exception; for an HTTPException the text
\* "<status_code>: <detail>" in the builds whose HTTPException defines __str__,
\* the empty text in the builds where it does not
str_e(e) ==
    IF e.type = "HTTPException"
    THEN {<<"400", ": ">> \o e.detail, <<>>}
    ELSE {<<e.type>>}

\* the body of the with-block of ingest_data
ingest_body(data_type, records) ==
    IF data_type \in ValidDataTypes
    THEN IF \E i \in DOMAIN records : records[i] = "bad"
         THEN LET bad == CHOOSE i \in DOMAIN records :
                               records[i] = "bad" /\ \A j \in 1..(i - 1) : records[j] = "ok"
              IN  [calls |-> [i \in 1..(bad - 1) |-> "add"] \o <<"TypeError">>,
                   result |-> Raised([type |-> "TypeError"])]
         ELSE [calls |-> [i \in DOMAIN records |-> "add"],
               result |-> Returned(Len(records))]
    ELSE [calls |-> <<"HTTPException">>,
          result |-> Raised(HTTPException(400, invalid_data_type(data_type)))]

\* get_db around the body, for a body whose exception is a record
ingest_get_db(body, commit_raises) ==
    IF body.result.raised
    THEN [calls |-> <<"SessionLocal">> \o body.calls \o <<"rollback", "close">>,
          result |-> body.result]
    ELSE IF commit_raises
    THEN [calls |-> <<"SessionLocal">> \o body.calls
                    \o <<"commit", "OperationalError", "rollback", "close">>,
          result |-> Raised([type |-> "OperationalError"])]
    ELSE [calls |-> <<"SessionLocal">> \o body.calls \o <<"commit", "close">>,
          result |-> body.result]

\* ingest_data: the responses it can give, with the session calls it made and
\* the number of rows it committed
ingest_data(data_type, records, commit_raises) ==
    LET session == ingest_get_db(ingest_body(data_type, records), commit_raises)
    IN  IF session.result.raised
        THEN { [calls |-> session.calls, added |-> 0, status_code |-> 500,
                detail |-> detail] : detail \in str_e(session.result.exc) }
        ELSE { [calls |-> session.calls, added |-> session.result.value,
                status_code |-> 200, detail |-> <<>>] }

NoIngest == [pc |-> "idle", committed |-> 0]

\* a client posts a body to /ingest
CallIngestData ==
    /\ ingest.pc = "idle"
    /\ \E data_type \in DataTypes, records \in RecordLists(MaxRecords) :
         /\ ingest.committed + Len(records) <= MaxCommitted
         /\ ingest' = [pc |-> "called", committed |-> ingest.committed,
                       data_type |-> data_type, records |-> records]
    /\ UNCHANGED <<normalizing, tool, gremlin_conn, threads, rest>>
    /\ UNCHANGED agent_vars
    /\ UNCHANGED resolver_vars

\* the route handler runs and answers
ingest_data_return ==
    /\ ingest.pc = "called"
    /\ \E commit_raises \in BOOLEAN :
         \E r \in ingest_data(ingest.data_type, ingest.records, commit_raises) :
             ingest' = [pc |-> "returned",
                        committed |-> ingest.committed + r.added,
                        before |-> ingest.committed,
                        data_type |-> ingest.data_type, records |-> ingest.records,
                        calls |-> r.calls, status_code |-> r.status_code,
                        detail |-> r.detail]
    /\ UNCHANGED <<normalizing, tool, gremlin_conn, threads, rest>>
    /\ UNCHANGED agent_vars
    /\ UNCHANGED resolver_vars

\* the client has the response
IngestDataDone ==
    /\ ingest.pc = "returned"
    /\ ingest' = [pc |-> "idle", committed |-> ingest.committed]
    /\ UNCHANGED <<normalizing, tool, gremlin_conn, threads, rest>>
    /\ UNCHANGED agent_vars
    /\ UNCHANGED resolver_vars

IngestNext ==
    \/ CallIngestData
    \/ ingest_data_return
    \/ IngestDataDone

----------------------------------------------------------------------------
(* Two requests at a time on the global gremlin_conn of gremlin_db.py *)

\* the worker threads that handle requests at the same time
Threads == {1, 2}

\* self.g: None, or a traversal source bound to the remote connection
\* self.conn held when it was made (0: bound to None)
NoTraversal == [set |-> FALSE, remote |-> 0]
traversal_withRemote(conn) == [set |-> TRUE, remote |-> conn]

\* GremlinConnection.__init__; conn is 0 for None, t for the remote
\* connection opened by thread t
GremlinConnection == [g |-> NoTraversal, conn |-> 0, _connected |-> FALSE]

NoRequest == [pc |-> "idle"]

\* the steps of the threads leave everything else alone
OnlyThreads ==
    /\ UNCHANGED <<normalizing, tool, ingest, rest>>
    /\ UNCHANGED agent_vars
    /\ UNCHANGED resolver_vars

\* thread t reads / writes attributes of gremlin_conn and goes on to position p
Step(t, p, reads, writes) ==
    [threads EXCEPT ![t].pc = p,
                    ![t].reads = @ \cup reads,
                    ![t].writes = @ \cup writes]

\* a request arrives on thread t and gets to _expand_context_via_graph;
\* connect is what DriverRemoteConnection(...) does for this request if it
\* is called
ConcurrentCall(t) ==
    /\ threads[t].pc = "idle"
    /\ \E connect \in {"ok", "raise"} :
         threads' = [threads EXCEPT ![t] =
                       [pc |-> "ensure_connected", caller |-> "_expand_context_via_graph",
                        connect |-> connect, start |-> gremlin_conn,
                        reads |-> {}, writes |-> {}, expanded_products |-> "none"]]
    /\ UNCHANGED gremlin_conn
    /\ OnlyThreads

\* ensure_connected: if not self._connected
ensure_connected_test(t) ==
    /\ threads[t].pc = "ensure_connected"
    /\ threads' = Step(t, IF gremlin_conn._connected THEN "ensure_connected_return"
                           ELSE "_connect", {"_connected"}, {})
    /\ UNCHANGED gremlin_conn
    /\ OnlyThreads

\* _connect: if self._connected: return
_connect_test(t) ==
    /\ threads[t].pc = "_connect"
    /\ threads' = Step(t, IF gremlin_conn._connected THEN "ensure_connected_return"
                           ELSE "_connect_conn", {"_connected"}, {})
    /\ UNCHANGED gremlin_conn
    /\ OnlyThreads

\* self.conn = DriverRemoteConnection(...), which can raise
_connect_conn(t) ==
    /\ threads[t].pc = "_connect_conn"
    /\ IF threads[t].connect = "ok"
       THEN /\ gremlin_conn' = [gremlin_conn EXCEPT !.conn = t]
            /\ threads' = Step(t, "_connect_g", {}, {"conn"})
       ELSE /\ threads' = Step(t, "_connect_except_conn", {}, {})
            /\ UNCHANGED gremlin_conn
    /\ OnlyThreads

\* self.g = traversal().withRemote(self.conn)
_connect_g(t) ==
    /\ threads[t].pc = "_connect_g"
    /\ gremlin_conn' = [gremlin_conn EXCEPT !.g = traversal_withRemote(gremlin_conn.conn)]
    /\ threads' = Step(t, "_connect_connected", {"conn"}, {"g"})
    /\ OnlyThreads

\* self._connected = True
_connect_connected(t) ==
    /\ threads[t].pc = "_connect_connected"
    /\ gremlin_conn' = [gremlin_conn EXCEPT !._connected = TRUE]
    /\ threads' = Step(t, "ensure_connected_return", {}, {"_connected"})
    /\ OnlyThreads

\* except Exception: self.conn = None
_connect_except_conn(t) ==
    /\ threads[t].pc = "_connect_except_conn"
    /\ gremlin_conn' = [gremlin_conn EXCEPT !.conn = 0]
    /\ threads' = Step(t, "_connect_except_g", {}, {"conn"})
    /\ OnlyThreads

\* self.g = None
_connect_except_g(t) ==
    /\ threads[t].pc = "_connect_except_g"
    /\ gremlin_conn' = [gremlin_conn EXCEPT !.g = NoTraversal]
    /\ threads' = Step(t, "_connect_except_connected", {}, {"g"})
    /\ OnlyThreads

\* self._connected = False
_connect_except_connected(t) ==
    /\ threads[t].pc = "_connect_except_connected"
    /\ gremlin_conn' = [gremlin_conn EXCEPT !._connected = FALSE]
    /\ threads' = Step(t, "ensure_connected_return", {}, {"_connected"})
    /\ OnlyThreads

\* ensure_connected: return self._connected, to _expand_context_via_graph
\* (which skips the expansion or calls expand_product_context) or to
\* expand_product_context (which returns [] or builds its traversal)
ensure_connected_return(t) ==
    /\ threads[t].pc = "ensure_connected_return"
    /\ threads' =
         IF threads[t].caller = "_expand_context_via_graph"
         THEN IF gremlin_conn._connected
              THEN [Step(t, "ensure_connected", {"_connected"}, {})
                      EXCEPT ![t].caller = "expand_product_context"]
              ELSE [Step(t, "done", {"_connected"}, {})
                      EXCEPT ![t].expanded_products = "skipped"]
         ELSE IF gremlin_conn._connected
              THEN Step(t, "traversal", {"_connected"}, {})
              ELSE [Step(t, "done", {"_connected"}, {})
                      EXCEPT ![t].expanded_products = "empty"]
    /\ UNCHANGED gremlin_conn
    /\ OnlyThreads

\* expand_product_context: self.g.V()...toList() inside try; any exception
\* (g is None, g is bound to no connection) is caught and gives []
expand_product_context_traversal(t) ==
    /\ threads[t].pc = "traversal"
    /\ threads' = [Step(t, "done", {"g"}, {}) EXCEPT ![t].expanded_products =
                     IF gremlin_conn.g.set /\ gremlin_conn.g.remote # 0
                     THEN "rows" ELSE "empty"]
    /\ UNCHANGED gremlin_conn
    /\ OnlyThreads

\* the request on thread t is answered
ConcurrentDone(t) ==
    /\ threads[t].pc = "done"
    /\ threads' = [threads EXCEPT ![t] = NoRequest]
    /\ UNCHANGED gremlin_conn
    /\ OnlyThreads

ConcurrentNext ==
    \E t \in Threads :
          \/ ConcurrentCall(t)
          \/ ensure_connected_test(t)
          \/ _connect_test(t)
          \/ _connect_conn(t)
          \/ _connect_g(t)
          \/ _connect_connected(t)
          \/ _connect_except_conn(t)
          \/ _connect_except_g(t)
          \/ _connect_except_connected(t)
          \/ ensure_connected_return(t)
          \/ expand_product_context_traversal(t)
          \/ ConcurrentDone(t)

----------------------------------------------------------------------------
(* The GremlinConnection of gremlin_db_rest_fixed.py *)

\* the most HTTP posts of one connection object
MaxPosts == 3

\* what the endpoint does with a post: answers 200 with a data list, answers
\* 200 with a null data field, answers with another status, does not answer
\* in 30 seconds, cannot be reached
EndpointStates == {"status_200", "status_200_null", "status_401", "timeout", "unreachable"}

NotConstructed == [pc |-> "none"]

\* the calls on the connection leave everything else alone
OnlyRest ==
    /\ UNCHANGED <<normalizing, tool, gremlin_conn, threads, ingest>>
    /\ UNCHANGED agent_vars
    /\ UNCHANGED resolver_vars

\* _execute_query(query): whether it posts, and the value it returns
\* ("data": a list of results, "[]": the empty list, "None")
_execute_query(self, endpoint) ==
    IF ~self.endpoint \/ ~self.headers
    THEN [posted |-> FALSE, value |-> "[]"]
    ELSE IF endpoint = "status_200" THEN [posted |-> TRUE, value |-> "data"]
    ELSE IF endpoint = "status_200_null" THEN [posted |-> TRUE, value |-> "None"]
    ELSE [posted |-> TRUE, value |-> "[]"]

\* _setup_connection: set endpoint and headers, run the test query, set
\* _connected when the result is not None
_setup_connection(self, endpoint) ==
    LET configured == [self EXCEPT !.endpoint = TRUE, !.headers = TRUE]
        test_result == _execute_query(configured, endpoint)
    IN  [self |-> IF test_result.value # "None"
                  THEN [configured EXCEPT !._connected = TRUE]
                  ELSE configured,
         posted |-> test_result.posted]

\* the record of a call: the object after it, the posts so far, the state
\* of the endpoint during the call, the call, and its return value
AfterCall(self, posted, op, result) ==
    [rest EXCEPT !.self = self,
                 !.posts = IF posted THEN @ \o <<rest.endpoint>> ELSE @,
                 !.during = rest.endpoint,
                 !.op = op,
                 !.result = result]

\* the state of the endpoint changes
EndpointChanges ==
    /\ rest.pc = "constructed"
    /\ \E e \in EndpointStates \ {rest.endpoint} : rest' = [rest EXCEPT !.endpoint = e]
    /\ OnlyRest

\* gremlin_conn = GremlinConnection(): __init__ calls _setup_connection
RestConstruct ==
    /\ rest.pc = "none"
    /\ \E e \in EndpointStates :
         LET done == _setup_connection([_connected |-> FALSE, endpoint |-> FALSE,
                                        headers |-> FALSE], e)
         IN  rest' = [pc |-> "constructed", self |-> done.self, endpoint |-> e,
                      posts |-> IF done.posted THEN <<e>> ELSE <<>>,
                      during |-> e, op |-> "__init__", result |-> "None"]
    /\ OnlyRest

\* gremlin_conn._setup_connection()
RestSetupConnection ==
    /\ rest.pc = "constructed"
    /\ Len(rest.posts) < MaxPosts
    /\ LET done == _setup_connection(rest.self, rest.endpoint)
       IN  rest' = AfterCall(done.self, done.posted, "_setup_connection", "None")
    /\ OnlyRest

\* gremlin_conn.ensure_connected()
RestEnsureConnected ==
    /\ rest.pc = "constructed"
    /\ rest.self._connected \/ Len(rest.posts) < MaxPosts
    /\ IF ~rest.self._connected
       THEN LET done == _setup_connection(rest.self, rest.endpoint)
            IN  rest' = AfterCall(done.self, done.posted, "ensure_connected",
                                  IF done.self._connected THEN "True" ELSE "False")
       ELSE rest' = AfterCall(rest.self, FALSE, "ensure_connected", "True")
    /\ OnlyRest

\* gremlin_conn.close()
RestClose ==
    /\ rest.pc = "constructed"
    /\ rest' = AfterCall([rest.self EXCEPT !._connected = FALSE], FALSE, "close", "None")
    /\ OnlyRest

\* gremlin_conn._execute_query("g.V().count()"), as the test script calls it
RestExecuteQuery ==
    /\ rest.pc = "constructed"
    /\ Len(rest.posts) < MaxPosts
    /\ LET done == _execute_query(rest.self, rest.endpoint)
       IN  rest' = AfterCall(rest.self, done.posted, "_execute_query", done.value)
    /\ OnlyRest

RestNext ==
    \/ EndpointChanges
    \/ RestConstruct
    \/ RestSetupConnection
    \/ RestEnsureConnected
    \/ RestClose
    \/ RestExecuteQuery

----------------------------------------------------------------------------
(* The caller and the specification *)

NoResponse == [status |-> "none"]

Init ==
    /\ pc = "idle"
    /\ handler = ""
    /\ chart_type = ""
    /\ completion = NotCalled
    /\ response = NoResponse
    /\ calls = <<>>
    /\ db_log = <<>>
    /\ requirement = ""
    /\ rpc = "idle"
    /\ entities = NoEntities
    /\ _connected = FALSE
    /\ graph_calls = <<>>
    /\ expanded = NoExpansion
    /\ context = NoContext
    /\ prompt = <<>>
    /\ normalizing = NotNormalizing
    /\ tool = NoToolCall
    /\ gremlin_conn = GremlinConnection
    /\ threads = [t \in Threads |-> NoRequest]
    /\ ingest = NoIngest
    /\ rest = NotConstructed

\* a caller calls agent.query_database(query)
CallQueryDatabase ==
    /\ pc = "idle"
    /\ pc' = "called"
    /\ handler' = "query_database"
    /\ chart_type' = ""
    /\ UNCHANGED <<completion, response, calls, db_log, requirement>>
    /\ UNCHANGED resolver_vars
    /\ UNCHANGED unit_vars

\* a caller calls agent.query_database_for_chart(query, chart_type)
CallQueryDatabaseForChart ==
    /\ pc = "idle"
    /\ \E ct \in ChartTypes :
         /\ pc' = "called"
         /\ handler' = "query_database_for_chart"
         /\ chart_type' = ct
    /\ UNCHANGED <<completion, response, calls, db_log, requirement>>
    /\ UNCHANGED resolver_vars
    /\ UNCHANGED unit_vars

\* the caller has read the result; the locals of the request are gone
NextRequest ==
    /\ pc = "returned"
    /\ pc' = "idle"
    /\ handler' = ""
    /\ chart_type' = ""
    /\ completion' = NotCalled
    /\ response' = NoResponse
    /\ calls' = <<>>
    /\ db_log' = <<>>
    /\ requirement' = ""
    /\ UNCHANGED resolver_vars
    /\ UNCHANGED unit_vars

Next ==
    \/ CallQueryDatabase
    \/ CallQueryDatabaseForChart
    \/ query_database_generate
    \/ query_database_execute
    \/ query_database_for_chart_generate
    \/ query_database_for_chart_execute
    \/ NextRequest

Spec == Init /\ [][Next]_vars

\* the context resolver on its own
ResolverSpec == Init /\ [][ResolverNext]_vars

\* the prompt assembly on its own
PromptSpec == Init /\ [][PromptNext]_vars

\* the normalization of a cell on its own
NormalizeSpec == Init /\ [][NormalizeNext]_vars

\* the MCP tool on its own
ToolSpec == Init /\ [][ToolNext]_vars

\* POST /ingest on its own
IngestSpec == Init /\ [][IngestNext]_vars

\* two requests at a time on the global graph connection
ConcurrentSpec == Init /\ [][ConcurrentNext]_vars

\* the REST graph connection on its own
RestSpec == Init /\ [][RestNext]_vars

----------------------------------------------------------------------------
(* One request through the whole pipeline: the handler, the context resolver
   with its steps, the prompt, the completion, the guard, the database *)

\* the entity resolver results of the pipeline runs: at most one product and
\* one date, no location or the most locations, all with their ids
PipelineEntityResults ==
    { e \in EntityResults :
        /\ Len(e.products) <= 1
        /\ Len(e.locations) \in {0, MaxLocations}
        /\ \A i \in 1..Len(e.locations) : truthy(get(e.locations[i], "id"))
        /\ e.dates \in {<<>>, <<[date |-> PyStr(D_2025_11_01)]>>} }

\* the completion texts of the pipeline runs
PipelineTexts ==
    { [kind |-> "text", text |-> SELECT_A_FROM_T],
      [kind |-> "text", text |-> SELECT_A_FROM_T \o <<";"," ","L","I","M","I","T"," ","1","0">>] }

\* the chart types of the pipeline runs
PipelineChartTypes == {"PieChart", "SankeyChart"}

PipelineCallQueryDatabase ==
    /\ rpc = "idle"
    /\ CallQueryDatabase

PipelineCallQueryDatabaseForChart ==
    /\ rpc = "idle"
    /\ CallQueryDatabaseForChart
    /\ chart_type' \in PipelineChartTypes

\* resolved_context = self.resolver.resolve_query_context(user_query)
PipelineResolve ==
    /\ pc = "called"
    /\ CallResolveQueryContext

PipelineEntities ==
    /\ pc = "called"
    /\ resolve_query_context_entities
    /\ entities' \in PipelineEntityResults

PipelineExpand ==
    /\ pc = "called"
    /\ resolve_query_context_expand

PipelineCombine ==
    /\ pc = "called"
    /\ resolve_query_context_combine

\* self.resolver.get_sql_generation_prompt(user_query, resolved_context), in
\* _generate_sql_with_context and in _generate_chart_specific_sql
PipelinePrompt ==
    /\ pc = "called"
    /\ rpc = "returned"
    /\ rpc' = "prompted"
    /\ prompt' = get_sql_generation_prompt(USER_QUERY, context)
    /\ UNCHANGED <<entities, _connected, graph_calls, expanded, context>>
    /\ UNCHANGED agent_vars
    /\ UNCHANGED unit_vars

\* query_database from the return of the resolver to db.execute
PipelineQueryDatabaseGenerate ==
    /\ pc = "called"
    /\ handler = "query_database"
    /\ rpc \in {"raised", "prompted"}
    /\ UNCHANGED requirement
    /\ IF rpc = "raised"
       THEN Returns("query_database", "", NotCalled, query_database_no_sql("raise", NotCalled))
       ELSE \/ \E co \in CompletionFailures :
                 Returns("query_database", "", co, query_database_no_sql("ok", co))
            \/ \E co \in PipelineTexts :
                 Executes(co, guarded_sql(co.text), generation_calls)

\* query_database_for_chart from the return of the resolver to db.execute
PipelineQueryDatabaseForChartGenerate ==
    /\ pc = "called"
    /\ handler = "query_database_for_chart"
    /\ rpc \in {"raised", "prompted"}
    /\ IF rpc = "raised"
       THEN /\ Returns("query_database_for_chart", chart_type, NotCalled,
                       query_database_for_chart_no_sql("raise", NotCalled))
            /\ UNCHANGED requirement
       ELSE \E req \in {chart_requirements_get(chart_type)} :
              IF req.raised
              THEN /\ Returns("query_database_for_chart", chart_type, NotCalled,
                              query_database_for_chart_no_requirement(req.exc))
                   /\ UNCHANGED requirement
              ELSE /\ requirement' = req.value
                   /\ \/ \E co \in CompletionFailures :
                           Returns("query_database_for_chart", chart_type, co,
                                   query_database_for_chart_no_sql("ok", co))
                      \/ \E co \in PipelineTexts :
                           Executes(co, _generate_chart_specific_sql(co.text, chart_type),
                                    chart_generation_calls)

\* the caller has the response; the locals of the request are gone, the graph
\* connection stays as it is
PipelineDone ==
    /\ pc = "returned"
    /\ pc' = "idle"
    /\ handler' = ""
    /\ chart_type' = ""
    /\ completion' = NotCalled
    /\ response' = NoResponse
    /\ calls' = <<>>
    /\ db_log' = <<>>
    /\ requirement' = ""
    /\ rpc' = "idle"
    /\ entities' = NoEntities
    /\ graph_calls' = <<>>
    /\ expanded' = NoExpansion
    /\ context' = NoContext
    /\ prompt' = <<>>
    /\ UNCHANGED _connected
    /\ UNCHANGED unit_vars

PipelineNext ==
    \/ PipelineCallQueryDatabase
    \/ PipelineCallQueryDatabaseForChart
    \/ PipelineResolve
    \/ PipelineEntities
    \/ PipelineExpand
    \/ PipelineCombine
    \/ PipelinePrompt
    \/ PipelineQueryDatabaseGenerate
    \/ PipelineQueryDatabaseForChartGenerate
    \/ query_database_execute
    \/ query_database_for_chart_execute
    \/ PipelineDone

\* one request at a time, through every stage
PipelineSpec == Init /\ [][PipelineNext]_vars


TypeOK ==
    /\ pc \in {"idle", "called", "executing", "returned"}
    /\ response.status \in {"none", "success", "failed"}

----------------------------------------------------------------------------
(* Vocabulary of the properties *)

\* the request received a completion text
GotText == completion.kind = "text"

\* the request handed a statement to db.execute
Executed == db_log # <<>>

\* the handler has just handed its statement to db.execute
Handing == pc = "executing"

\* number of case-insensitive occurrences of LIMIT in s
LimitCount(s) == Cardinality(Occurrences(upper(s), LIMIT))

\* the completion text after code-fence stripping and trimming carries no LIMIT
NoLimitAfterCleaning == ~Contains(upper(clean_sql(completion.text)), LIMIT)

\* the limit of the guard for a request: the default, or the chart-type value
GuardLimit ==
    IF handler = "query_database" THEN 50
    ELSE IF chart_type = "PieChart" THEN 10
    ELSE IF chart_type \in {"BarChart", "ColumnChart"} THEN 20
    ELSE IF chart_type = "LineChart" THEN 50
    ELSE IF chart_type = "ScatterChart" THEN 100
    ELSE 50

\* " LIMIT n" for the limit of the guard
GuardLimitClause ==
    IF GuardLimit = 10 THEN SP_LIMIT_10
    ELSE IF GuardLimit = 20 THEN SP_LIMIT_20
    ELSE IF GuardLimit = 100 THEN SP_LIMIT_100
    ELSE SP_LIMIT_50

Max(a, b) == IF a >= b THEN a ELSE b

----------------------------------------------------------------------------
(* C1 *)

\* C1 as stated: the statement handed to the database contains exactly one
\* case-insensitive occurrence of LIMIT, however many the raw text contained.
C1_ExactlyOneLimit ==
    Handing => LimitCount(db_log[1]) = 1

\* C1, amended: the statement handed to the database contains at least one
\* case-insensitive occurrence of LIMIT: exactly one when the text after
\* code-fence stripping and trimming contained none or one, and as many as that
\* text contained when it contained several.
C1_LimitCountPreserved ==
    Handing =>
        /\ LimitCount(db_log[1]) >= 1
        /\ LimitCount(db_log[1]) = Max(1, LimitCount(clean_sql(completion.text)))

\* a request whose completion text carried no LIMIT executed a statement with
\* exactly one: the guard appended it
C1_Witness ==
    /\ Handing
    /\ LimitCount(clean_sql(completion.text)) = 0
    /\ LimitCount(db_log[1]) = 1

----------------------------------------------------------------------------
(* C2 *)

KW_SELECT == <<"S","E","L","E","C","T">>
KW_WITH == <<"W","I","T","H">>

\* C2 as stated: a statement that does not begin with SELECT or WITH is never
\* handed to a database session.
C2_OnlyReadStatementsExecuted ==
    \A i \in 1..Len(db_log) :
        StartsWith(upper(db_log[i]), KW_SELECT) \/ StartsWith(upper(db_log[i]), KW_WITH)

----------------------------------------------------------------------------
(* C3 *)

\* C3 as stated: in a success response row_count is the number of rows of data
\* and is at most the limit of the guard (default or chart-type value).
C3_RowCountWithinGuardLimit ==
    (pc = "returned" /\ response.status = "success") =>
        /\ response.row_count = Len(response.data)
        /\ response.row_count <= GuardLimit

\* C3, amended: in a success response row_count is the number of rows of data;
\* it is at most the limit of the guard when the guard appended its LIMIT
\* clause (the cleaned completion text carried no LIMIT) and the database
\* applies the clause that ends the statement.
C3_RowCountWithinAppendedLimit ==
    (pc = "returned" /\ response.status = "success") =>
        /\ response.row_count = Len(response.data)
        /\ response.row_count <= GuardLimit \/ ~NoLimitAfterCleaning

\* a pie-chart request without a LIMIT of its own that filled the limit of 10
C3_Witness ==
    /\ pc = "returned"
    /\ response.status = "success"
    /\ chart_type = "PieChart"
    /\ NoLimitAfterCleaning
    /\ response.row_count = 10
    /\ Len(response.data) = 10

----------------------------------------------------------------------------
(* C4 *)

\* the statement query_database holds before the semicolon fix
BeforeFix == _generate_sql_with_context(completion.text)

\* C4 as stated: the semicolon-before-LIMIT rewrite is idempotent: applying it
\* twice to the generated statement gives what applying it once gives.
C4_RewriteIdempotent ==
    (Handing /\ handler = "query_database") =>
        fix_semicolon_limit(fix_semicolon_limit(BeforeFix)) = fix_semicolon_limit(BeforeFix)

----------------------------------------------------------------------------
(* C5 *)

\* s from position i on, where each semicolon immediately followed by " LIMIT"
\* is dropped, each semicolon immediately followed by "LIMIT" gives way to one
\* space, and every other character stays
RECURSIVE OnlyLimitSemicolonsTouched(_, _)
OnlyLimitSemicolonsTouched(s, i) ==
    IF i > Len(s) THEN <<>>
    ELSE (IF s[i] = ";" /\ OccursAt(s, SP_LIMIT, i + 1) THEN <<>>
          ELSE IF s[i] = ";" /\ OccursAt(s, LIMIT, i + 1) THEN <<" ">>
          ELSE <<s[i]>>)
         \o OnlyLimitSemicolonsTouched(s, i + 1)

\* C5: the rewrite changes only the semicolons that are immediately followed by
\* "LIMIT" or " LIMIT" (each is removed, a space taking its place when LIMIT
\* follows directly); every other semicolon and every other character of the
\* statement is kept, in the same order.
C5_RewriteFrame ==
    (Handing /\ handler = "query_database") =>
        /\ fix_semicolon_limit(BeforeFix) = OnlyLimitSemicolonsTouched(BeforeFix, 1)
        /\ db_log[1] = OnlyLimitSemicolonsTouched(BeforeFix, 1)

\* the rewrite removed a semicolon before LIMIT and kept another semicolon
C5_Witness ==
    /\ Handing
    /\ handler = "query_database"
    /\ db_log[1] # BeforeFix
    /\ Contains(db_log[1], <<";">>)

----------------------------------------------------------------------------
(* C6 *)

\* the four steps of the guard, each on its own
StripFences(s) == replace(replace(s, FENCE_SQL, <<>>), FENCE, <<>>)
Trim(s) == strip(s)
RewriteSemicolonLimit(s) == replace(replace(s, SEMI_SP_LIMIT, SP_LIMIT), SEMI_LIMIT, SP_LIMIT)
AppendLimitIfMissing(s) == IF Contains(upper(s), LIMIT) THEN s ELSE s \o SP_LIMIT_50

\* C6 as stated: what query_database executes is the completion text after
\* strip fences, trim, rewrite, append-LIMIT-if-missing, in this order.
C6_RewriteThenAppend ==
    (Handing /\ handler = "query_database") =>
        db_log[1] =
            AppendLimitIfMissing(RewriteSemicolonLimit(Trim(StripFences(completion.text))))

\* C6, amended: what query_database executes is the completion text after
\* strip fences, trim, append-LIMIT-if-missing and only then the rewrite of
\* "; LIMIT"/";LIMIT" to " LIMIT": the rewrite is the last step.
C6_AppendThenRewrite ==
    (Handing /\ handler = "query_database") =>
        db_log[1] =
            RewriteSemicolonLimit(AppendLimitIfMissing(Trim(StripFences(completion.text))))

\* a request for which the two orders differ: the cleaned text ends with a
\* semicolon and carries no LIMIT
C6_Witness ==
    /\ Handing
    /\ handler = "query_database"
    /\ LET cleaned == Trim(StripFences(completion.text))
       IN  /\ AppendLimitIfMissing(RewriteSemicolonLimit(cleaned))
                # RewriteSemicolonLimit(AppendLimitIfMissing(cleaned))
           /\ db_log[1] = SELECT_A_FROM_T \o SP_LIMIT_50

----------------------------------------------------------------------------
(* C7 *)

\* the endings "; LIMIT n" and ";LIMIT n", each with the ending " LIMIT n"
\* the guard turns it into
C7_Endings ==
    { [raw |-> <<";"," ","L","I","M","I","T"," ","1","0">>, guarded |-> SP_LIMIT_10],
      [raw |-> <<";"," ","L","I","M","I","T"," ","1","2">>,
       guarded |-> <<" ","L","I","M","I","T"," ","1","2">>],
      [raw |-> <<";","L","I","M","I","T"," ","1","2">>,
       guarded |-> <<" ","L","I","M","I","T"," ","1","2">>] }

\* the part T of a text T + ending
C7_T(ending) == SubSeq(completion.text, 1, Len(completion.text) - Len(ending))

\* query_database hands over a statement for a completion text T + e.raw,
\* where T has no LIMIT and does not end with ";"
C7_Form(e) ==
    /\ Handing
    /\ handler = "query_database"
    /\ EndsWith(completion.text, e.raw)
    /\ ~Contains(upper(C7_T(e.raw)), LIMIT)
    /\ ~EndsWith(C7_T(e.raw), <<";">>)

\* what query_database executes is also what it returns in sql_query
C7_ReturnsExecuted ==
    (pc = "returned" /\ handler = "query_database" /\ Executed) =>
        response.sql_query = db_log[1]

\* C7 as stated: for a completion text T + "; LIMIT n" or T + ";LIMIT n", T
\* without LIMIT and not ending with a semicolon, query_database executes and
\* returns T + " LIMIT n".
C7_SemicolonLimitRepaired ==
    /\ \A e \in C7_Endings : C7_Form(e) => db_log[1] = C7_T(e.raw) \o e.guarded
    /\ C7_ReturnsExecuted

\* C7, amended: the same, for T that in addition has no leading whitespace and
\* no code-fence marker (the guard strips both).
C7_SemicolonLimitRepairedCleanT ==
    /\ \A e \in C7_Endings :
        (/\ C7_Form(e)
         /\ lstrip(C7_T(e.raw)) = C7_T(e.raw)
         /\ ~Contains(C7_T(e.raw), FENCE)) => db_log[1] = C7_T(e.raw) \o e.guarded
    /\ C7_ReturnsExecuted

\* "SELECT a FROM t; LIMIT 10" was executed as "SELECT a FROM t LIMIT 10"
C7_Witness ==
    /\ pc = "returned"
    /\ handler = "query_database"
    /\ completion.text = SELECT_A_FROM_T \o <<";"," ","L","I","M","I","T"," ","1","0">>
    /\ db_log[1] = SELECT_A_FROM_T \o SP_LIMIT_10
    /\ response.sql_query = SELECT_A_FROM_T \o SP_LIMIT_10

----------------------------------------------------------------------------
(* C8 *)

\* C8 as stated: when the completion text contains no LIMIT, the executed
\* statement ends with " LIMIT n", n the chart-type value or the default 50.
C8_LimitAppendedForRawWithoutLimit ==
    /\ GotText => Executed
    /\ (Handing /\ ~Contains(upper(completion.text), LIMIT)) =>
           EndsWith(db_log[1], GuardLimitClause)

\* C8, amended: when the completion text contains no LIMIT after code-fence
\* stripping and trimming, the executed statement ends with " LIMIT n", n the
\* value of the chart type (PieChart 10, BarChart and ColumnChart 20,
\* LineChart 50, ScatterChart 100), and 50 for any other chart type and when
\* no chart type is supplied.
C8_LimitAppendedForCleanedWithoutLimit ==
    /\ GotText => Executed
    /\ (Handing /\ NoLimitAfterCleaning) => EndsWith(db_log[1], GuardLimitClause)

\* a ColumnChart request without LIMIT was executed with LIMIT 20
C8_Witness ==
    /\ Handing
    /\ chart_type = "ColumnChart"
    /\ NoLimitAfterCleaning
    /\ db_log[1] = SELECT_A_FROM_T \o SP_LIMIT_20

----------------------------------------------------------------------------
(* C9 *)

Range(f) == {f[i] : i \in DOMAIN f}

\* the entity resolver raised: nothing was called after it
ResolverRaised == pc = "returned" /\ calls = <<"resolve_query_context", "ResolverError">>

\* the completion raised, or its content could not be used
CompletionRaised == pc = "returned" /\ completion.kind \in {"raise", "none"}

\* the with-block raised: execute, fetchall, a cell that does not normalize,
\* or the commit
DatabaseRaised == pc = "returned" /\ "rollback" \in Range(calls)

\* C9: every failure inside a handler (resolver, completion, database, a cell
\* that fails to normalize) is returned as a response with status "failed", an
\* error and data == []; the handler always returns a response, and the status
\* is "success" only if the statement was executed and committed without a
\* failure.
C9_FailuresAreFailedResponses ==
    pc = "returned" =>
        /\ response.status \in {"success", "failed"}
        /\ (ResolverRaised \/ CompletionRaised \/ DatabaseRaised) =>
               response.status = "failed"
        /\ response.status = "failed" =>
               /\ "error" \in DOMAIN response
               /\ response.data = <<>>
               /\ ResolverRaised \/ CompletionRaised \/ DatabaseRaised
        /\ response.status = "success" =>
               /\ Executed
               /\ ~(ResolverRaised \/ CompletionRaised \/ DatabaseRaised)
               /\ "execute" \in Range(calls)
               /\ "fetchall" \in Range(calls)
               /\ "commit" \in Range(calls)
               /\ Len(response.data) = response.row_count

\* a cell failed to normalize and the caller got a failed response
C9_Witness ==
    /\ pc = "returned"
    /\ "keys" \in Range(calls)
    /\ "commit" \notin Range(calls)
    /\ response.status = "failed"
    /\ response.error = "ValueError"
    /\ response.data = <<>>

----------------------------------------------------------------------------
(* C10 *)

\* db.execute raised for the statement of the request
ExecuteRaised == pc = "returned" /\ Executed /\ "fetchall" \notin Range(calls)

\* C10 as stated: when the database raises while executing the statement, the
\* failed response carries the attempted statement in sql_query, for both
\* handlers.
C10_AttemptedSqlReturned ==
    ExecuteRaised =>
        /\ response.status = "failed"
        /\ "sql_query" \in DOMAIN response
        /\ response.sql_query = db_log[1]

----------------------------------------------------------------------------
(* C11 *)

\* C11 as stated: when the completion text is empty, or only code-fence markers
\* and whitespace, the request fails as a generation failure: no statement is
\* handed to the database and the response has status "failed".
C11_EmptyTextIsGenerationFailure ==
    (GotText /\ clean_sql(completion.text) = <<>>) =>
        /\ ~Executed
        /\ pc = "returned" => response.status = "failed"

----------------------------------------------------------------------------
(* C12 *)

\* number of times x occurs in seq
Count(seq, x) == Cardinality({i \in DOMAIN seq : seq[i] = x})

\* C12: every session opened by get_db is closed exactly once on every exit
\* path of its with-block (normal completion, execute raises, fetchall or a
\* cell raises, commit raises); close is the last call of the session, the
\* session is open while the statement executes, and none is open once the
\* response is with the caller.
C12_SessionClosedExactlyOnce ==
    /\ Handing => Count(calls, "SessionLocal") = 1 /\ Count(calls, "close") = 0
    /\ pc = "returned" =>
            /\ Count(calls, "SessionLocal") = Count(calls, "close")
            /\ Executed => /\ Count(calls, "SessionLocal") = 1
                           /\ Count(calls, "close") = 1
                           /\ calls[Len(calls)] = "close"
            /\ ~Executed => Count(calls, "SessionLocal") = 0
    /\ pc \in {"idle", "called"} => Count(calls, "SessionLocal") = 0

\* the commit raised and the session was closed once
C12_Witness ==
    /\ pc = "returned"
    /\ "OperationalError" \in Range(calls)
    /\ Count(calls, "commit") = 1
    /\ Count(calls, "close") = 1

----------------------------------------------------------------------------
(* C13 *)

\* position of the first x in seq, 0 when there is none
Index(seq, x) ==
    IF \E i \in DOMAIN seq : seq[i] = x
    THEN CHOOSE i \in DOMAIN seq : seq[i] = x /\ \A j \in 1..(i - 1) : seq[j] # x
    ELSE 0

\* the call at position i of calls raised
RaisedAt(i) == i >= 1 /\ i < Len(calls) /\ calls[i + 1] \in Exceptions

\* the with-block of the request raised: execute, fetchall or a cell
BlockRaised ==
    \E i \in DOMAIN calls :
        /\ calls[i] \in {"execute", "fetchall", "_normalize_value"}
        /\ RaisedAt(i)

\* the exception the with-block raised
BlockException == calls[Index(calls, "SessionLocal") +
                        (CHOOSE k \in 1..Len(calls) :
                            /\ calls[Index(calls, "SessionLocal") + k] \in Exceptions
                            /\ \A j \in 1..(k - 1) :
                                  calls[Index(calls, "SessionLocal") + j] \notin Exceptions)]

CommitRaised == RaisedAt(Index(calls, "commit"))

RollbackRaised == RaisedAt(Index(calls, "rollback"))

\* the request ran a with-block and has returned
SessionOver == pc = "returned" /\ Executed

----------------------------------------------------------------------------
(* C20 *)

\* the types the boundary may emit: null, boolean, integer, float, string
NormalizedTypes == {"NoneType", "bool", "int", "float", "str"}

\* the raw values the database answers with
RawValues ==
    UNION { UNION { Range(r.rows[i]) : i \in 1..Len(r.rows) } : r \in Results(1) }

\* C20: every cell of every row of a success response is the output of
\* _normalize_value for a raw database value and is null, a boolean, an
\* integer, a float or a string; no Decimal, date or other object is emitted.
C20_CellsAreNormalized ==
    (pc = "returned" /\ response.status = "success") =>
        \A r \in 1..Len(response.data) :
            \A col \in DOMAIN response.data[r] :
                /\ response.data[r][col].type \in NormalizedTypes
                /\ \E raw \in RawValues :
                       /\ ~_normalize_value(raw).raised
                       /\ response.data[r][col] = _normalize_value(raw).value

\* a row with a boolean, a float, a string, a list and a timestamp came out as
\* boolean, float, string, string and string
C20_Witness ==
    /\ pc = "returned"
    /\ response.status = "success"
    /\ Len(response.data) = 1
    /\ DOMAIN response.data[1] = {"b", "f", "s", "o", "ts"}
    /\ response.data[1]["o"] = PyStr("[1, 2]")
    /\ response.data[1]["ts"] = PyStr("2025-11-08T00:00:00")
    /\ response.data[1]["b"] = PyBool(TRUE)

----------------------------------------------------------------------------
(* Vocabulary of the properties of the context resolver *)

\* _expand_context_via_graph has returned
Expanded == rpc \in {"expanded", "returned"}

\* at least one entity of the list carries a value under the key
Carries(es, k) == \E i \in 1..Len(es) : truthy(get(es[i], k))

\* the calls of a graph method
CallsOf(method) == {i \in 1..Len(graph_calls) : graph_calls[i].method = method}

\* the graph expander is unreachable: ensure_connected answered False, or every
\* graph method that was called caught an exception
GraphUnreachable ==
    Expanded /\ (~_connected \/ \A i \in 1..Len(graph_calls) : graph_calls[i].caught)

----------------------------------------------------------------------------
(* C14 *)

\* C14: when the graph expander is unreachable (ensure_connected answers
\* False, or the traversals raise), _expand_context_via_graph returns three
\* empty lists, every graph method that caught an exception contributes [],
\* and resolve_query_context returns a context whose expanded products,
\* expanded locations and related events are [] and whose resolved lists are
\* those of the entity resolver; the call raises only when the entity resolver
\* raises, never because of the graph.
C14_GraphFailureDegrades ==
    /\ GraphUnreachable => expanded = NoExpansion
    /\ Expanded =>
          /\ \A i \in CallsOf("expand_product_context") :
                graph_calls[i].caught => expanded.expanded_products = <<>>
          /\ \A i \in CallsOf("expand_location_context") :
                graph_calls[i].caught => expanded.expanded_locations = <<>>
          /\ \A i \in CallsOf("find_related_events") :
                graph_calls[i].caught => expanded.related_events = <<>>
    /\ (rpc = "returned" /\ GraphUnreachable) =>
          /\ context.status = "returned"
          /\ context.products.expanded = <<>>
          /\ context.locations.expanded = <<>>
          /\ context.events.related_events = <<>>
          /\ context.products.resolved = entities.products
          /\ context.locations.resolved = entities.locations
          /\ context.dates.resolved = entities.dates
          /\ context.events.resolved = entities.events
    /\ rpc = "raised" => context.exc = "ResolverError"

\* the connection was up, the three graph methods were called, each caught the
\* exception of its traversal, and the context came back without expansion
C14_Witness ==
    /\ rpc = "returned"
    /\ _connected
    /\ Len(graph_calls) = 3
    /\ \A i \in 1..3 : graph_calls[i].caught /\ graph_calls[i].traversal # <<>>
    /\ context.products.resolved # <<>>
    /\ context.products.expanded = <<>>
    /\ context.locations.expanded = <<>>
    /\ context.events.related_events = <<>>

----------------------------------------------------------------------------
(* C15 *)

\* C15: a graph method is called only when at least one resolved entity of
\* its kind carries an id (expand_product_context with the product ids,
\* expand_location_context with the location ids), find_related_events only
\* when in addition at least one resolved date value exists; the method gets
\* exactly the non-empty list of those ids, and in every other case it is not
\* called and its expanded list is [].
C15_ExpansionOnlyWithIds ==
    Expanded =>
        /\ \A i \in CallsOf("expand_product_context") :
              /\ Carries(entities.products, "id")
              /\ graph_calls[i].ids # <<>>
              /\ graph_calls[i].ids = values_of(entities.products, "id")
        /\ \A i \in CallsOf("expand_location_context") :
              /\ Carries(entities.locations, "id")
              /\ graph_calls[i].ids # <<>>
              /\ graph_calls[i].ids = values_of(entities.locations, "id")
        /\ \A i \in CallsOf("find_related_events") :
              /\ Carries(entities.locations, "id")
              /\ Carries(entities.dates, "date")
              /\ graph_calls[i].ids # <<>>
              /\ graph_calls[i].dates # <<>>
        /\ ~Carries(entities.products, "id") =>
              /\ CallsOf("expand_product_context") = {}
              /\ expanded.expanded_products = <<>>
        /\ ~Carries(entities.locations, "id") =>
              /\ CallsOf("expand_location_context") = {}
              /\ expanded.expanded_locations = <<>>
        /\ ~(Carries(entities.locations, "id") /\ Carries(entities.dates, "date")) =>
              /\ CallsOf("find_related_events") = {}
              /\ expanded.related_events = <<>>
        /\ _connected =>
              /\ Carries(entities.products, "id") =>
                    Cardinality(CallsOf("expand_product_context")) = 1
              /\ Carries(entities.locations, "id") =>
                    Cardinality(CallsOf("expand_location_context")) = 1
              /\ (Carries(entities.locations, "id") /\ Carries(entities.dates, "date")) =>
                    Cardinality(CallsOf("find_related_events")) = 1

\* products without an id and locations with one, no date: only the location
\* expansion was called
C15_Witness ==
    /\ rpc = "returned"
    /\ _connected
    /\ entities.products # <<>>
    /\ ~Carries(entities.products, "id")
    /\ entities.dates # <<>>
    /\ ~Carries(entities.dates, "date")
    /\ Len(graph_calls) = 1
    /\ graph_calls[1].method = "expand_location_context"
    /\ context.locations.expanded = LocationResults
    /\ context.events.related_events = <<>>

----------------------------------------------------------------------------
(* C16 *)

\* C16 as stated: the location expansion queries the graph with at most the
\* first 3 resolved location ids, in order; no id beyond the third reaches
\* the traversal.
C16_LocationExpansionCapped ==
    \A i \in CallsOf("expand_location_context") :
        \A j \in 1..Len(graph_calls[i].traversal) :
            /\ Len(graph_calls[i].traversal[j].within) <= 3
            /\ graph_calls[i].traversal[j].within = first(graph_calls[i].ids, 3)

----------------------------------------------------------------------------
(* C17 *)

\* a <= b for two values; values of different types do not compare
py_less_equal(a, b) == a.type = b.type /\ ~py_less(b, a)

\* the pair is (minimum, maximum) of the values
MinMaxOf(pair, values) ==
    /\ pair.type = "tuple"
    /\ pair.items[1] \in values
    /\ pair.items[2] \in values
    /\ \A v \in values : py_less_equal(pair.items[1], v) /\ py_less_equal(v, pair.items[2])
    /\ py_less_equal(pair.items[1], pair.items[2])

\* C17 as stated: date_range is None if and only if the resolved date list is
\* empty; otherwise it is the pair (minimum, maximum) of the resolved dates,
\* minimum <= maximum.
C17_DateRangeOfResolvedDates ==
    rpc = "returned" =>
        /\ context.dates.date_range = PyNone <=> context.dates.resolved = <<>>
        /\ context.dates.resolved # <<>> =>
               MinMaxOf(context.dates.date_range,
                        Range(values_of(context.dates.resolved, "date")))

\* C17, amended: date_range is None if and only if no resolved date entry
\* carries a date value; otherwise it is the pair (minimum, maximum) of the
\* date values after the conversion of Excel serial dates (an int, or a text
\* of digits) into YYYY-MM-DD text, minimum <= maximum.
C17_DateRangeOfConvertedDates ==
    rpc = "returned" =>
        /\ context.dates.date_range = PyNone <=> ~Carries(context.dates.resolved, "date")
        /\ Carries(context.dates.resolved, "date") =>
               MinMaxOf(context.dates.date_range,
                        { _convert_excel_date(v) :
                            v \in Range(values_of(context.dates.resolved, "date")) })

\* the serial date 45969 and the date 2025-11-01 gave the range 2025-11-01 to
\* 2025-11-08
C17_Witness ==
    /\ rpc = "returned"
    /\ context.dates.resolved = <<[date |-> PyInt(45969)], [date |-> PyStr(D_2025_11_01)]>>
    /\ context.dates.date_range = PyTuple(<<PyStr(D_2025_11_01), PyStr(D_2025_11_08)>>)

----------------------------------------------------------------------------
(* The prompt of get_sql_generation_prompt *)

Prompted == rpc = "prompted"

\* the values the prompt shows after a label (none when the label is absent)
Shown(label) ==
    IF \E i \in 1..Len(prompt) : prompt[i].label = label
    THEN prompt[CHOOSE i \in 1..Len(prompt) : prompt[i].label = label].shown
    ELSE <<>>

\* shown is taken, entry by entry and in order, from the first cap entries of
\* the list
PrefixUpTo(shown, list, cap, From(_, _)) ==
    /\ Len(shown) = Min(cap, Len(list))
    /\ Len(shown) <= cap
    /\ \A i \in 1..Len(shown) : From(shown[i], list[i])

FieldsOf(e) == {e[k] : k \in DOMAIN e}

NameOfProduct(v, e) == v.name \in FieldsOf(e) \cup {UNKNOWN}
IdOfProduct(v, e) == v \in {get(e, "product_id"), get(e, "id")}
ProductIdOf(v, e) == v = get(e, "product_id")
NameOfLocation(v, e) == v \in FieldsOf(e) \cup {UNKNOWN}
IdOf(v, e) == v = get(e, "id")
StoreIdOf(v, e) == v = get(e, "store_id")
NameOfEvent(v, e) == v \in FieldsOf(e) \cup {UNKNOWN_EVENT}

\* C18: for every context, however long its lists, the prompt shows at most 5
\* resolved product names, 10 resolved product ids, 20 expanded product ids,
\* 5 resolved location names, 20 resolved location ids, 50 expanded location
\* ids and 5 event names, and each shown list is the prefix (first elements,
\* in order) of the corresponding context list.
C18_ShownListsAreCappedPrefixes ==
    Prompted =>
        /\ PrefixUpTo(Shown("Relevant Products: "), context.products.resolved, 5, NameOfProduct)
        /\ PrefixUpTo(Shown("Product IDs (for specific item queries): "),
                      context.products.resolved, 10, IdOfProduct)
        /\ PrefixUpTo(Shown("Expanded Product IDs: "), context.products.expanded, 20, ProductIdOf)
        /\ PrefixUpTo(Shown("Relevant Locations: "), context.locations.resolved, 5, NameOfLocation)
        /\ PrefixUpTo(Shown("Store IDs to filter: "), context.locations.resolved, 20, IdOf)
        /\ PrefixUpTo(Shown("Expanded Store IDs: "), context.locations.expanded, 50, StoreIdOf)
        /\ PrefixUpTo(Shown("Relevant Events: "), context.events.resolved, 5, NameOfEvent)

\* every list of the context is longer than its cap, and the prompt shows
\* exactly 5, 10, 20, 5, 20, 50 and 5 entries
C18_Witness ==
    /\ Prompted
    /\ Len(context.products.resolved) > 10
    /\ Len(context.products.expanded) > 20
    /\ Len(context.locations.resolved) > 20
    /\ Len(context.locations.expanded) > 50
    /\ Len(context.events.resolved) > 5
    /\ Len(Shown("Relevant Products: ")) = 5
    /\ Len(Shown("Product IDs (for specific item queries): ")) = 10
    /\ Len(Shown("Expanded Product IDs: ")) = 20
    /\ Len(Shown("Relevant Locations: ")) = 5
    /\ Len(Shown("Store IDs to filter: ")) = 20
    /\ Len(Shown("Expanded Store IDs: ")) = 50
    /\ Len(Shown("Relevant Events: ")) = 5

\* the sections of the prompt, in their order
SectionOrder ==
    <<"date_anchoring", "user_query", "products", "locations", "dates", "events",
      "schema", "formulas", "rules">>

Rank(section) == CHOOSE r \in 1..Len(SectionOrder) : SectionOrder[r] = section

HasSection(section) == \E i \in 1..Len(prompt) : prompt[i].section = section

\* the resolved and expanded lists of the context are all empty
EmptyContext ==
    /\ context.products.resolved = <<>> /\ context.products.expanded = <<>>
    /\ context.locations.resolved = <<>> /\ context.locations.expanded = <<>>
    /\ context.dates.resolved = <<>> /\ context.dates.date_range = PyNone
    /\ context.events.resolved = <<>>

\* C19: for every context, including one whose resolved and expanded lists are
\* all empty, the prompt contains the date-anchoring section, the schema
\* section, the formulas section and the generation rules, and the sections
\* that are present appear in the same relative order: date anchoring,
\* products, locations, dates, events, schema, formulas, rules.
C19_StaticSectionsInFixedOrder ==
    Prompted =>
        /\ \A s \in {"date_anchoring", "schema", "formulas", "rules"} : HasSection(s)
        /\ \A i \in 1..Len(prompt) : prompt[i].section \in Range(SectionOrder)
        /\ \A i, j \in 1..Len(prompt) :
               i < j => Rank(prompt[i].section) <= Rank(prompt[j].section)

\* the prompt of a context without any entity: the date anchoring, the query,
\* the schema, the formulas and the rules, nothing else
C19_Witness ==
    /\ Prompted
    /\ EmptyContext
    /\ {prompt[i].section : i \in 1..Len(prompt)} =
           {"date_anchoring", "user_query", "schema", "formulas", "rules"}
    /\ prompt[Len(prompt)].section = "rules"

----------------------------------------------------------------------------
(* C21 *)

\* the Decimal has a zero fractional part
ZeroFraction(d) == "hundredths" \in DOMAIN d => d.hundredths % 100 = 0

\* the int i has the value of the integral Decimal d
SameInteger(i, d) ==
    IF "hundredths" \in DOMAIN d
    THEN i = PyInt(d.hundredths \div 100)
    ELSE i = PyIntUnits(d.hi, d.lo)

\* C21: _normalize_value maps None to None, a temporal value to its ISO-8601
\* string, a decimal with zero fractional part to the integer of the same value
\* (never a float), a decimal with a non-zero fractional part to a float,
\* passes bool, int, float and str through unchanged and maps anything else to
\* its string form.
C21_NormalizeRules ==
    normalizing.pc = "returned" =>
        LET value == normalizing.value
            result == normalizing.result
        IN  /\ value.type = "NoneType" => result = Returned(PyNone)
            /\ value.type = "date" => result = Returned(PyStr(value.iso))
            /\ (value.type = "Decimal" /\ ZeroFraction(value)) =>
                   /\ ~result.raised
                   /\ result.value.type = "int"
                   /\ SameInteger(result.value, value)
            /\ (value.type = "Decimal" /\ ~ZeroFraction(value)) =>
                   result = Returned(PyFloat(value.hundredths))
            /\ value.type \in {"bool", "int", "float", "str"} => result = Returned(value)
            /\ value.type = "object" => result = Returned(PyStr(value.repr))

----------------------------------------------------------------------------
(* C22 *)

\* the calls that are not repeated: the completion and the statement execution
Issued == {"completions.create", "execute"}

\* C22: within one query_database or query_database_for_chart request, the
\* completion call and the statement execution are each issued at most once,
\* and after either of them fails it is never re-issued: the request ends in a
\* failed response instead.
C22_NoRetry ==
    /\ Count(calls, "completions.create") <= 1
    /\ Count(calls, "execute") <= 1
    /\ Len(db_log) <= 1
    /\ \A i \in DOMAIN calls :
          (calls[i] \in Issued /\ RaisedAt(i)) =>
              /\ \A j \in (i + 1)..Len(calls) : calls[j] \notin Issued
              /\ pc = "returned"
              /\ response.status = "failed"
    /\ (pc = "returned" /\ completion.kind \in {"raise", "none"}) =>
          /\ Count(calls, "completions.create") = 1
          /\ "execute" \notin Range(calls)
          /\ response.status = "failed"

\* the statement execution raised: one completion call, one execution, a failed
\* response
C22_Witness ==
    /\ pc = "returned"
    /\ Count(calls, "completions.create") = 1
    /\ Count(calls, "execute") = 1
    /\ RaisedAt(Index(calls, "execute"))
    /\ response.status = "failed"

----------------------------------------------------------------------------
(* C24 *)

\* the chart type of the request is outside the enumeration
UnknownChartType ==
    handler = "query_database_for_chart" /\ chart_type \notin chart_requirements

\* the completion was called with a chart prompt
ChartPrompted == "completions.create" \in Range(calls)

\* C24: query_database_for_chart with a chart type outside the enumeration
\* does not fail because of the chart type: it uses the generic requirement
\* "Return relevant data" and the default limit, and the response status is
\* the one a known chart type has for the same collaborator outcomes.
C24_UnknownChartTypeIsGeneric ==
    UnknownChartType =>
        /\ ChartPrompted => requirement = "Return relevant data"
        /\ (Executed /\ NoLimitAfterCleaning) =>
               db_log[1] = clean_sql(completion.text) \o SP_LIMIT_50
        /\ pc = "executing" =>
               \A dbo \in DbOutcomes(db_log[1]) :
                   \A known \in chart_requirements :
                       query_database_for_chart_result(chart_type, db_log[1], dbo).response.status
                         = query_database_for_chart_result(known, db_log[1], dbo).response.status
        /\ pc = "returned" =>
               /\ response.status = "failed" =>
                      /\ ResolverRaised \/ CompletionRaised \/ DatabaseRaised
                      /\ response.error \in Exceptions \ {"KeyError"}
               /\ response.status = "success" <=>
                      ~(ResolverRaised \/ CompletionRaised \/ DatabaseRaised)

\* a SankeyChart request whose statement got the default limit and succeeded
C24_Witness ==
    /\ pc = "returned"
    /\ chart_type = "SankeyChart"
    /\ requirement = "Return relevant data"
    /\ response.status = "success"
    /\ NoLimitAfterCleaning
    /\ EndsWith(db_log[1], SP_LIMIT_50)

----------------------------------------------------------------------------
(* C25 *)

\* C25: whenever the underlying query_database call succeeds, the text the
\* tool returns is derived from that result (its data or answer), and the
\* fallback text "No answer generated." is returned only when the pipeline
\* produced no result.
C25_ToolReturnsTheAnswer ==
    tool.pc = "returned" =>
        /\ tool.result.status = "success" =>
               /\ tool.text.kind = "str"
               /\ tool.text.of \in {tool.result[k] : k \in DOMAIN tool.result}
        /\ tool.text = NO_ANSWER_GENERATED => tool.result.status # "success"

----------------------------------------------------------------------------
(* C26 *)

\* the calls that mark the stages of a request, in the order of the stages
StageCalls ==
    <<"resolve_query_context", "get_sql_generation_prompt", "completions.create",
      "execute", "fetchall", "_normalize_value">>

StageRank(call) == CHOOSE r \in 1..Len(StageCalls) : StageCalls[r] = call

\* the statement the guard of the handler makes of the completion text
GuardedStatement ==
    IF handler = "query_database"
    THEN guarded_sql(completion.text)
    ELSE _generate_chart_specific_sql(completion.text, chart_type)

\* C26: in every request the stages occur in the order entity resolution,
\* graph expansion, prompt assembly, generation, guard, execution,
\* normalization; entity resolution is called exactly once and before any
\* graph expansion call, no stage starts unless every earlier stage completed
\* without raising, and if entity resolution raises then neither the
\* completion nor the database is called for that request.
C26_StagesInOrder ==
    /\ rpc \in {"idle", "resolving"} => graph_calls = <<>> /\ expanded = NoExpansion
    /\ rpc \in {"idle", "resolving", "entities", "expanded"} => prompt = <<>> /\ calls = <<>>
    /\ prompt # <<>> => rpc = "prompted" /\ context.status = "returned"
    /\ "completions.create" \in Range(calls) => prompt # <<>>
    /\ Executed =>
          /\ completion.kind = "text"
          /\ "completions.create" \in Range(calls)
          /\ db_log = <<GuardedStatement>>
    /\ calls # <<>> => calls[1] = "resolve_query_context"
    /\ \A i, j \in DOMAIN calls :
          (i < j /\ calls[i] \in Range(StageCalls) /\ calls[j] \in Range(StageCalls)) =>
              StageRank(calls[i]) < StageRank(calls[j])
    /\ \A i \in DOMAIN calls :
          calls[i] \in Exceptions =>
              \A j \in (i + 1)..Len(calls) : calls[j] \in {"rollback", "close"} \cup Exceptions
    /\ response.status = "success" =>
          /\ Range(calls) \cap Exceptions = {}
          /\ "fetchall" \in Range(calls)
    /\ (pc = "returned" /\ rpc = "raised") =>
          /\ calls = <<"resolve_query_context", "ResolverError">>
          /\ completion = NotCalled
          /\ db_log = <<>>
          /\ response.status = "failed"

\* a request that went through every stage: entities, a graph call, the
\* prompt, the completion, the statement, the rows
C26_Witness ==
    /\ pc = "returned"
    /\ rpc = "prompted"
    /\ graph_calls # <<>>
    /\ prompt # <<>>
    /\ response.status = "success"
    /\ response.row_count > 0

----------------------------------------------------------------------------
(* C27 *)

\* the limits a guard appends
AppendedLimits == {SP_LIMIT_10, SP_LIMIT_20, SP_LIMIT_50, SP_LIMIT_100}

\* s without its last n characters
DropLast(s, n) == SubSeq(s, 1, Len(s) - n)

\* two statements are the same, or the same up to the value of a limit at the end
SameUpToAppendedLimit(a, b) ==
    \/ a = b
    \/ \E la, lb \in AppendedLimits :
          /\ EndsWith(a, la)
          /\ EndsWith(b, lb)
          /\ DropLast(a, Len(la)) = DropLast(b, Len(lb))

\* C27: the statement query_database_for_chart executes has had the
\* "; LIMIT" / ";LIMIT" to " LIMIT" repair applied, and it differs from the
\* statement query_database would execute for the same raw text only in the
\* value of an appended limit.
C27_ChartPathAppliesTheRepair ==
    (handler = "query_database_for_chart" /\ Executed) =>
        /\ ~Contains(db_log[1], SEMI_SP_LIMIT)
        /\ ~Contains(db_log[1], SEMI_LIMIT)
        /\ SameUpToAppendedLimit(db_log[1], guarded_sql(completion.text))

----------------------------------------------------------------------------
(* C28 *)

\* C28: in every success response each row map in data has exactly one entry
\* for each name in columns: its key set is the set of column names and its
\* size is len(columns), repeated column names included.
C28_RowMapsMatchColumns ==
    response.status = "success" =>
        \A r \in DOMAIN response.data :
            /\ DOMAIN response.data[r] = Range(response.columns)
            /\ Cardinality(DOMAIN response.data[r]) = Len(response.columns)

----------------------------------------------------------------------------
(* C23 *)

\* the request on thread t is under way
Running(t) == threads[t].pc # "idle"

\* what the request gets when no other request touches gremlin_conn between
\* its start and its end
Alone(start, connect) ==
    IF start._connected
    THEN IF start.g.set /\ start.g.remote # 0 THEN "rows" ELSE "empty"
    ELSE IF connect = "ok" THEN "rows" ELSE "skipped"

\* C23: requests handled at the same time share no mutable state: under
\* every interleaving of two requests no request reads or writes a variable
\* that another request writes, so the outcome of each request is the same
\* as if it ran alone.
C23_NoSharedMutableState ==
    /\ \A t, u \in Threads :
          (t # u /\ Running(t) /\ Running(u)) =>
              (threads[t].reads \cup threads[t].writes) \cap threads[u].writes = {}
    /\ \A t \in Threads :
          threads[t].pc = "done" =>
              threads[t].expanded_products = Alone(threads[t].start, threads[t].connect)

----------------------------------------------------------------------------
(* C29 *)

\* C29: POST /ingest with a data_type outside sales, inventory, weather,
\* events is rejected with HTTP status 400 and a detail that starts with
\* "Invalid data_type", and nothing of the request is committed.
C29_InvalidDataTypeIs400 ==
    (ingest.pc = "returned" /\ ingest.data_type \notin ValidDataTypes) =>
        /\ ingest.status_code = 400
        /\ ingest.detail # <<>>
        /\ ingest.detail[1] = "Invalid data_type"
        /\ ingest.committed = ingest.before
        /\ "commit" \notin Range(ingest.calls)

----------------------------------------------------------------------------
(* C30 *)

\* the endpoint does not answer a post with status 200
Failing(endpoint) == endpoint \in {"unreachable", "timeout", "status_401"}

\* C30: in the REST GremlinConnection _connected is True only after a test
\* query that succeeded: after any sequence of _setup_connection,
\* ensure_connected and close calls, if the endpoint is unreachable, times
\* out or answers with a non-200 status, ensure_connected returns False.
C30_ConnectedOnlyAfterSuccessfulTest ==
    rest.pc = "constructed" =>
        /\ rest.self._connected => "status_200" \in Range(rest.posts)
        /\ (rest.op = "ensure_connected" /\ Failing(rest.during)) => rest.result = "False"

====
